---- MODULE Spec2Model ----
(***************************************************************************)
(* Model of services/pre_pitch_architect.py (PrePitchArchitect) and of the *)
(* progress route of routes/analysis.py.                                   *)
(*                                                                         *)
(* Conventions of the encoding:                                            *)
(*  - Python str values are TLA+ strings; the accented letters of the      *)
(*    source are written without their accent (one character each, so      *)
(*    every length is the source's length).                                *)
(*  - A Python dict with fixed keys is a record; a value whose Python type *)
(*    varies carries a "tipo" field naming the type.                       *)
(*  - generation_timestamp (time.time()) is left out of the bundles.       *)
(*  - etapas_com_falha is the set of stages whose salvar_etapa call fails  *)
(*    in this request (the collaborator logs the failure and returns).     *)
(***************************************************************************)
EXTENDS Integers, Sequences, FiniteSets, TLC

VARIABLES drivers_list, avatar_analysis, context_data, pc, selected_drivers,
          emotional_orchestration, response, complete_script, exception,
          calls, raised, result, etapas_com_falha,
          pc_progress, etapas_salvas, etapa_i, analysis_data, progress

\* the state of a get_progress request
progress_vars == <<pc_progress, etapas_salvas, etapa_i, analysis_data, progress>>

vars == <<drivers_list, avatar_analysis, context_data, pc, selected_drivers,
          emotional_orchestration, response, complete_script, exception,
          calls, raised, result, etapas_com_falha, progress_vars>>

(***************************************************************************)
(* Bounds of the model.                                                    *)
(***************************************************************************)
MaxDrivers == 2

(***************************************************************************)
(* Python str operations.                                                  *)
(***************************************************************************)
UpperChars == "ABCDEFGHIJKLMNOPQRSTUVWXYZ"

LowerChars == "abcdefghijklmnopqrstuvwxyz"

\* str.lower() of one character
LowerChar(c) ==
    IF \E i \in 1..Len(UpperChars) : SubSeq(UpperChars, i, i) = c
    THEN LET i == CHOOSE j \in 1..Len(UpperChars) : SubSeq(UpperChars, j, j) = c
         IN  SubSeq(LowerChars, i, i)
    ELSE c

RECURSIVE Lower(_)
\* str.lower()
Lower(s) ==
    IF Len(s) = 0 THEN ""
    ELSE LowerChar(SubSeq(s, 1, 1)) \o Lower(SubSeq(s, 2, Len(s)))

\* needle in hay  (Python substring test on str)
StrIn(needle, hay) ==
    \E i \in 0..(Len(hay) - Len(needle)) :
        SubSeq(hay, i + 1, i + Len(needle)) = needle

\* needle in hay.lower(), for a needle that is already lower case
StrInLower(needle, hay) ==
    \E i \in 0..(Len(hay) - Len(needle)) :
        Lower(SubSeq(hay, i + 1, i + Len(needle))) = needle

\* any(keyword.lower() in name.lower() for keyword in keywords)
AnyKeywordIn(keywords, name) ==
    LET lname == Lower(name)
    IN  \E k \in 1..Len(keywords) : StrIn(Lower(keywords[k]), lname)

RECURSIVE Rep(_, _)
\* c * n
Rep(c, n) ==
    IF n = 0 THEN ""
    ELSE LET half == Rep(c, n \div 2)
         IN  half \o half \o (IF n % 2 = 1 THEN c ELSE "")

\* xs[:n] on a list
Take(xs, n) == SubSeq(xs, 1, IF n < Len(xs) THEN n ELSE Len(xs))

\* x in xs on a list
ListIn(x, xs) == \E i \in 1..Len(xs) : xs[i] = x

(***************************************************************************)
(* Driver records.  A driver dict is [tipo, nome]: tipo "str" when the     *)
(* dict has a str under 'nome', "none" when it has None there, "ausente"   *)
(* when it has no 'nome' key (nome is "" in the last two).                 *)
(***************************************************************************)
Driver(name) == [tipo |-> "str", nome |-> name]

DriverNomeNone == [tipo |-> "none", nome |-> ""]

DriverSemNome == [tipo |-> "ausente", nome |-> ""]

\* driver.get('nome', ''): the str, None, or the default ''
GetNome(driver) == driver.nome

\* driver.get('nome', '').lower() raises AttributeError on None
LowerRaises(driver) == driver.tipo = "none"

(***************************************************************************)
(* Static tables of the architect.                                         *)
(***************************************************************************)
psychological_phases ==
    << [fase |-> "quebra", objetivo |-> "Destruir a ilusao confortavel",
        duracao |-> "3-5 minutos", intensidade |-> "Alta",
        resultado_esperado |-> "Desconforto produtivo"],
       [fase |-> "exposicao", objetivo |-> "Revelar a ferida real",
        duracao |-> "4-6 minutos", intensidade |-> "Crescente",
        resultado_esperado |-> "Consciencia da dor"],
       [fase |-> "indignacao", objetivo |-> "Criar revolta produtiva",
        duracao |-> "3-4 minutos", intensidade |-> "Maxima",
        resultado_esperado |-> "Urgencia de mudanca"],
       [fase |-> "vislumbre", objetivo |-> "Mostrar o possivel",
        duracao |-> "5-7 minutos", intensidade |-> "Esperancosa",
        resultado_esperado |-> "Desejo amplificado"],
       [fase |-> "tensao", objetivo |-> "Amplificar o gap",
        duracao |-> "2-3 minutos", intensidade |-> "Crescente",
        resultado_esperado |-> "Tensao maxima"],
       [fase |-> "necessidade", objetivo |-> "Tornar a mudanca inevitavel",
        duracao |-> "3-4 minutos", intensidade |-> "Definitiva",
        resultado_esperado |-> "Necessidade de solucao"] >>

transition_templates ==
    [quebra_para_exposicao |-> "Eu sei que isso doi ouvir... Mas sabe o que doi mais?",
     exposicao_para_indignacao |-> "E o pior de tudo e que isso nao precisa ser assim...",
     indignacao_para_vislumbre |-> "Mas calma, nao vim aqui so para abrir feridas...",
     vislumbre_para_tensao |-> "Agora voce ve a diferenca entre onde esta e onde poderia estar...",
     tensao_para_necessidade |-> "A pergunta nao e SE voce vai mudar, e COMO...",
     necessidade_para_logica |-> "Eu sei que voce esta sentindo isso agora..."]

\* phase_drivers of _select_optimal_drivers, in insertion order
phase_drivers ==
    << [fase |-> "quebra",
        keywords |-> <<"Diagnostico Brutal", "Ferida Exposta", "Realidade Brutal">>],
       [fase |-> "exposicao",
        keywords |-> <<"Custo Invisivel", "Ambiente Vampiro", "Sangria Invisivel">>],
       [fase |-> "indignacao",
        keywords |-> <<"Relogio Psicologico", "Inveja Produtiva", "Urgencia">>],
       [fase |-> "vislumbre",
        keywords |-> <<"Ambicao Expandida", "Trofeu Secreto", "Potencial">>],
       [fase |-> "tensao",
        keywords |-> <<"Identidade Aprisionada", "Oportunidade Oculta", "Gap">>],
       [fase |-> "necessidade",
        keywords |-> <<"Metodo vs Sorte", "Mentor Salvador", "Sistema">>],
       [fase |-> "decisao",
        keywords |-> <<"Decisao Binaria", "Coragem Necessaria", "Momento">>] >>

critical_keywords ==
    <<"brutal", "diagnostico", "realidade", "custo", "perda", "urgencia",
      "tempo", "ambicao", "potencial", "metodo", "sistema", "decisao", "binaria">>

\* the if/elif chain of _map_drivers_to_phases, in order
phase_rules ==
    << [fase |-> "quebra", words |-> <<"diagnostico", "brutal", "ferida">>],
       [fase |-> "exposicao", words |-> <<"custo", "ambiente", "vampiro">>],
       [fase |-> "indignacao", words |-> <<"relogio", "urgencia", "inveja">>],
       [fase |-> "vislumbre", words |-> <<"ambicao", "trofeu", "expandida">>],
       [fase |-> "tensao", words |-> <<"identidade", "oportunidade">>],
       [fase |-> "necessidade", words |-> <<"metodo", "mentor", "salvador">>] >>

techniques ==
    [quebra |-> <<"Confronto direto", "Pergunta desconfortavel", "Estatistica chocante">>,
     exposicao |-> <<"Calculo de perdas", "Visualizacao da dor", "Comparacao cruel">>,
     indignacao |-> <<"Urgencia temporal", "Comparacao social", "Consequencias futuras">>,
     vislumbre |-> <<"Visualizacao do sucesso", "Casos de transformacao", "Possibilidades expandidas">>,
     tensao |-> <<"Gap atual vs ideal", "Identidade limitante", "Oportunidade unica">>,
     necessidade |-> <<"Caminho claro", "Mentor necessario", "Metodo vs caos">>]

(***************************************************************************)
(* Numbers of _select_optimal_drivers.                                     *)
(***************************************************************************)
MaxPerPhase == 2

MaxCritical == 5

MinSelected == 8

BackfillWindow == 12

MaxSelected == 10

(***************************************************************************)
(* _select_optimal_drivers                                                 *)
(***************************************************************************)
\* the drivers of the list whose name holds a keyword of the phase
PhaseMatches(keywords, drivers) ==
    SelectSeq(drivers, LAMBDA d : AnyKeywordIn(keywords, GetNome(d)))

RECURSIVE SelectedByPhase(_, _)
\* all_selected after "for phase_list in selected_by_phase.values()", from phase i on
SelectedByPhase(i, drivers) ==
    IF i > Len(phase_drivers) THEN <<>>
    ELSE Take(PhaseMatches(phase_drivers[i].keywords, drivers), MaxPerPhase)
         \o SelectedByPhase(i + 1, drivers)

CriticalDrivers(drivers) ==
    SelectSeq(drivers, LAMBDA d :
        \E k \in 1..Len(critical_keywords) :
            StrIn(critical_keywords[k], Lower(GetNome(d))))

RECURSIVE AppendMissing(_, _)
\* for driver in xs: if driver not in acc: acc.append(driver)
AppendMissing(acc, xs) ==
    IF xs = <<>> THEN acc
    ELSE AppendMissing(IF ListIn(Head(xs), acc) THEN acc ELSE Append(acc, Head(xs)),
                       Tail(xs))

RECURSIVE Backfill(_, _)
\* the loop over drivers_list[:12], left by break once 10 are selected
Backfill(acc, xs) ==
    IF xs = <<>> THEN acc
    ELSE LET acc2 == IF ListIn(Head(xs), acc) THEN acc ELSE Append(acc, Head(xs))
         IN  IF Len(acc2) >= MaxSelected THEN acc2 ELSE Backfill(acc2, Tail(xs))

RECURSIVE UniqueByDict(_, _)
\* UniqueByName telling drivers apart by the whole dict instead of the name
UniqueByDict(xs, seen_names) ==
    IF xs = <<>> THEN <<>>
    ELSE IF Head(xs) \in seen_names
         THEN UniqueByDict(Tail(xs), seen_names)
         ELSE <<Head(xs)>> \o UniqueByDict(Tail(xs), seen_names \cup {Head(xs)})

RECURSIVE UniqueByName(_, _)
\* removes the drivers whose name was already seen, keeping order
UniqueByName(xs, seen_names) ==
    IF xs = <<>> THEN <<>>
    ELSE IF GetNome(Head(xs)) \in seen_names
         THEN UniqueByName(Tail(xs), seen_names)
         ELSE <<Head(xs)>> \o UniqueByName(Tail(xs), seen_names \cup {GetNome(Head(xs))})

\* all_selected after the phase lists and the critical drivers were combined
WithCritical(drivers) ==
    AppendMissing(SelectedByPhase(1, drivers), Take(CriticalDrivers(drivers), MaxCritical))

\* AllSelected without the backfill from the head of the list
AllSelectedSemBackfill(drivers) ==
    WithCritical(drivers)

\* the combined selection before the removal of duplicates
AllSelected(drivers) ==
    LET with_critical == WithCritical(drivers)
    IN  IF Len(with_critical) < MinSelected
        THEN Backfill(with_critical, Take(drivers, BackfillWindow))
        ELSE with_critical

\* driver_name.lower() raises AttributeError when a 'nome' is None
SelectRaises(drivers) == \E i \in 1..Len(drivers) : LowerRaises(drivers[i])

SelectOptimalDrivers(drivers) == Take(UniqueByName(AllSelected(drivers), {}), MaxSelected)

GetBasicDrivers ==
    << Driver("Diagnostico Brutal"), Driver("Relogio Psicologico"), Driver("Metodo vs Sorte") >>

(***************************************************************************)
(* _map_drivers_to_phases and _create_emotional_orchestration              *)
(***************************************************************************)
RECURSIVE RuleOf(_, _)
\* the first branch of the if/elif chain the name satisfies, "" when none
RuleOf(i, lname) ==
    IF i > Len(phase_rules) THEN ""
    ELSE IF \E k \in 1..Len(phase_rules[i].words) : StrIn(phase_rules[i].words[k], lname)
         THEN phase_rules[i].fase
         ELSE RuleOf(i + 1, lname)

PhaseOf(driver) == RuleOf(1, Lower(GetNome(driver)))

\* MapDriversToPhases with a list, possibly empty, for every phase
MapDriversToPhasesTodas(drivers) ==
    LET of(p) == SelectSeq(drivers, LAMBDA d : PhaseOf(d) = p)
        used == {phase_rules[i].fase : i \in 1..Len(phase_rules)}
    IN  [p \in used |-> of(p)]

\* MapDriversToPhases without the last branch of the chain
MapDriversToPhasesSemNecessidade(drivers) ==
    LET of(p) == SelectSeq(drivers, LAMBDA d : PhaseOf(d) = p)
        used == {phase_rules[i].fase : i \in 1..(Len(phase_rules) - 1)}
    IN  [p \in {q \in used : of(q) # <<>>} |-> of(p)]

\* mapping: phase -> drivers appended in list order, only for phases that got one
MapDriversToPhases(drivers) ==
    LET of(p) == SelectSeq(drivers, LAMBDA d : PhaseOf(d) = p)
        used == {phase_rules[i].fase : i \in 1..Len(phase_rules)}
    IN  [p \in {q \in used : of(q) # <<>>} |-> of(p)]

GetPhaseTechniques(phase_name) ==
    IF phase_name \in DOMAIN techniques THEN techniques[phase_name]
    ELSE <<"Tecnica padrao">>

Nomes(drivers) == [i \in 1..Len(drivers) |-> drivers[i].nome]

RECURSIVE PsychologicalSequence(_, _)
PsychologicalSequence(i, phase_mapping) ==
    IF i > Len(psychological_phases) THEN <<>>
    ELSE LET phase_data == psychological_phases[i]
             phase_name == phase_data.fase
         IN  (IF phase_name \in DOMAIN phase_mapping
              THEN << [fase |-> phase_name,
                       objetivo |-> phase_data.objetivo,
                       duracao |-> phase_data.duracao,
                       intensidade |-> phase_data.intensidade,
                       drivers_utilizados |-> Nomes(phase_mapping[phase_name]),
                       resultado_esperado |-> phase_data.resultado_esperado,
                       tecnicas |-> GetPhaseTechniques(phase_name)] >>
              ELSE <<>>)
             \o PsychologicalSequence(i + 1, phase_mapping)

\* IsPeak counting 'Alta' among the peaks
IsPeakComAlta(seq) == seq.intensidade \in {"Maxima", "Definitiva", "Alta"}

IsPeak(seq) == seq.intensidade \in {"Maxima", "Definitiva"}

Fases(sequence) == [i \in 1..Len(sequence) |-> sequence[i].fase]

CreateEmotionalEscalation(sequence) ==
    [curva_intensidade |->
        [i \in 1..Len(sequence) |->
            [fase |-> sequence[i].fase, intensidade |-> sequence[i].intensidade]],
     pontos_pico |-> Fases(SelectSeq(sequence, IsPeak)),
     momentos_alivio |->
        Fases(SelectSeq(sequence, LAMBDA seq : seq.intensidade = "Esperancosa"))]

IdentifyCriticalPoints(sequence) ==
    LET peaks == SelectSeq(sequence, IsPeak)
    IN  [i \in 1..Len(peaks) |->
            [fase |-> peaks[i].fase,
             momento |-> "Durante " \o Lower(peaks[i].objetivo),
             risco |-> "Perda de audiencia se muito intenso",
             oportunidade |-> "Maximo impacto emocional",
             gestao |-> "Monitorar reacoes e ajustar intensidade"]]

\* CreatePhaseTransitions without the lookup in transition_templates
CreatePhaseTransitionsSemTabela(sequence) ==
    [i \in 1..(Len(sequence) - 1) |->
        [de |-> sequence[i].fase,
         para |-> sequence[i + 1].fase,
         script |-> "Transicao de " \o sequence[i].fase \o " para " \o sequence[i + 1].fase,
         tempo |-> "15-30 segundos",
         tecnica |-> "Ponte emocional suave"]]

CreatePhaseTransitions(sequence) ==
    [i \in 1..(Len(sequence) - 1) |->
        LET current_phase == sequence[i].fase
            next_phase == sequence[i + 1].fase
            transition_key == current_phase \o "_para_" \o next_phase
        IN  [de |-> current_phase,
             para |-> next_phase,
             script |-> IF transition_key \in DOMAIN transition_templates
                        THEN transition_templates[transition_key]
                        ELSE "Transicao de " \o current_phase \o " para " \o next_phase,
             tempo |-> "15-30 segundos",
             tecnica |-> "Ponte emocional suave"]]

CreateEmotionalOrchestration(drivers) ==
    LET psychological_sequence == PsychologicalSequence(1, MapDriversToPhases(drivers))
    IN  [sequencia_psicologica |-> psychological_sequence,
         escalada_emocional |-> CreateEmotionalEscalation(psychological_sequence),
         pontos_criticos |-> IdentifyCriticalPoints(psychological_sequence),
         transicoes |-> CreatePhaseTransitions(psychological_sequence)]

BasicPhase(fase, objetivo, duracao, intensidade, driver, resultado) ==
    [fase |-> fase, objetivo |-> objetivo, duracao |-> duracao,
     intensidade |-> intensidade, drivers_utilizados |-> <<driver>>,
     resultado_esperado |-> resultado]

CreateBasicOrchestration ==
    [sequencia_psicologica |->
        << BasicPhase("quebra", "Quebrar padrao e despertar consciencia", "3-5 minutos",
                      "Alta", "Diagnostico Brutal", "Desconforto produtivo"),
           BasicPhase("vislumbre", "Mostrar possibilidades", "5-7 minutos",
                      "Esperancosa", "Metodo vs Sorte", "Desejo de mudanca"),
           BasicPhase("necessidade", "Criar urgencia", "3-4 minutos",
                      "Definitiva", "Relogio Psicologico", "Urgencia de acao") >>]

(***************************************************************************)
(* _calculate_total_duration and _calculate_max_intensity                  *)
(***************************************************************************)
Digits == "0123456789"

IsDigit(c) == \E i \in 1..Len(Digits) : SubSeq(Digits, i, i) = c

DigitVal(c) == (CHOOSE i \in 1..Len(Digits) : SubSeq(Digits, i, i) = c) - 1

RECURSIVE FindNumbers(_, _, _)
\* [int(n) for n in re.findall(r'\d+', s)]: the maximal digit runs, left to right;
\* cur is the run being read (-1 outside a run)
FindNumbers(s, i, cur) ==
    IF i > Len(s) THEN (IF cur >= 0 THEN <<cur>> ELSE <<>>)
    ELSE LET c == SubSeq(s, i, i)
         IN  IF IsDigit(c)
             THEN FindNumbers(s, i + 1, (IF cur >= 0 THEN cur * 10 ELSE 0) + DigitVal(c))
             ELSE (IF cur >= 0 THEN <<cur>> ELSE <<>>) \o FindNumbers(s, i + 1, -1)

RECURSIVE IntToStr(_)
\* str(n) for n >= 0
IntToStr(n) ==
    IF n < 10 THEN SubSeq(Digits, n + 1, n + 1)
    ELSE IntToStr(n \div 10) \o SubSeq(Digits, (n % 10) + 1, (n % 10) + 1)

RECURSIVE DurationTotalsSoPares(_, _)
\* DurationTotals without the branch for a single number
DurationTotalsSoPares(sequence, i) ==
    IF i > Len(sequence) THEN <<0, 0>>
    ELSE LET numbers == FindNumbers(sequence[i].duracao, 1, -1)
             rest == DurationTotalsSoPares(sequence, i + 1)
         IN  IF Len(numbers) >= 2 THEN <<numbers[1] + rest[1], numbers[2] + rest[2]>>
             ELSE rest

RECURSIVE DurationTotals(_, _)
\* <<total_min, total_max>> over the phases from i on
DurationTotals(sequence, i) ==
    IF i > Len(sequence) THEN <<0, 0>>
    ELSE LET numbers == FindNumbers(sequence[i].duracao, 1, -1)
             rest == DurationTotals(sequence, i + 1)
         IN  IF Len(numbers) >= 2 THEN <<numbers[1] + rest[1], numbers[2] + rest[2]>>
             ELSE IF Len(numbers) = 1 THEN <<numbers[1] + rest[1], numbers[1] + rest[2]>>
             ELSE rest

CalculateTotalDuration(orchestration) ==
    LET totals == DurationTotals(orchestration.sequencia_psicologica, 1)
    IN  IntToStr(totals[1]) \o "-" \o IntToStr(totals[2]) \o " minutos"

\* CalculateMaxIntensity testing 'Alta' before 'Maxima'
CalculateMaxIntensityAltaPrimeiro(orchestration) ==
    LET sequence == orchestration.sequencia_psicologica
        has(x) == \E i \in 1..Len(sequence) : sequence[i].intensidade = x
    IN  IF has("Alta") THEN "Alta"
        ELSE IF has("Maxima") THEN "Maxima"
        ELSE IF has("Crescente") THEN "Crescente"
        ELSE "Media"

CalculateMaxIntensity(orchestration) ==
    LET sequence == orchestration.sequencia_psicologica
        has(x) == \E i \in 1..Len(sequence) : sequence[i].intensidade = x
    IN  IF has("Maxima") THEN "Maxima"
        ELSE IF has("Alta") THEN "Alta"
        ELSE IF has("Crescente") THEN "Crescente"
        ELSE "Media"

(***************************************************************************)
(* Scripts.  A parsed JSON value is [tipo, ...]: a script is               *)
(* [tipo |-> "dict", secoes |-> <section name -> section>]; a section is   *)
(* [tipo |-> "dict", script_tipo, script] with script_tipo "str" (script   *)
(* is the body), "num" (a number stands under 'script') or "ausente" (no   *)
(* 'script' key); a value that is no dict has another tipo.  The fields of *)
(* a section other than 'script' are left out.                             *)
(***************************************************************************)
Section(text) == [tipo |-> "dict", script_tipo |-> "str", script |-> text]

SectionSemScript == [tipo |-> "dict", script_tipo |-> "ausente", script |-> ""]

SectionScriptNum == [tipo |-> "dict", script_tipo |-> "num", script |-> ""]

SectionNaoDict == [tipo |-> "str", script_tipo |-> "ausente", script |-> ""]

Script(secoes) == [tipo |-> "dict", secoes |-> secoes]

EmptyDict == [k \in {} |-> ""]

\* context_data.get('segmento', default)
GetSegmento(context, default) ==
    IF "segmento" \in DOMAIN context THEN context.segmento ELSE default

\* _create_massive_script, 'abertura_impacto' script (line 532)
MassiveAberturaImpactoText(segmento) ==
    (  "Deixa eu te fazer uma pergunta BRUTAL sobre "
       \o segmento
       \o "... Ha quanto tempo voce esta fingindo que esta tudo bem? Sabe quando "
       \o "voce fala 'ah, esta indo', mas no fundo sabe que esta estagnado? Quand"
       \o "o voce trabalha dobrado mas nao sai do lugar? Quando olha pros seus nu"
       \o "meros e sente aquele aperto no estomago? Pois e. Essa e a ferida que v"
       \o "oce esta tentando ignorar. E sabe qual e o pior? Cada dia que voce fin"
       \o "ge que esta tudo bem, essa ferida esta infectando. Esta espalhando par"
       \o "a outras areas da sua vida. Seu relacionamento sente. Sua autoestima s"
       \o "ente. Seu sono sente. Porque no fundo voce SABE que esta desperdicando"
       \o " seu potencial em "
       \o segmento
       \o ". E isso doi mais que qualquer fracasso. E a dor da mediocridade volun"
       \o "taria.")

\* _create_massive_script, 'exposicao_ferida' script (line 545)
MassiveExposicaoFeridaText(segmento) ==
    (  "Porque voce esta sendo VAMPIRIZADO sem perceber. Cada processo manual "
       \o "em "
       \o segmento
       \o " = R$ X perdidos. Cada oportunidade desperdicada = R$ Y que nao voltam"
       \o ". Cada mes sem otimizar = R$ Z vazando pelos furos que voce nem ve. Va"
       \o "mos fazer as contas CRUEIS: se voce tivesse otimizado "
       \o segmento
       \o " ha 1 ano, estaria com R$ 50 mil a mais hoje. Ha 2 anos? R$ 150 mil. H"
       \o "a 3 anos? Mais de R$ 300 mil que EVAPORARAM porque voce ficou 'planeja"
       \o "ndo' em vez de agir. Isso sem contar o custo emocional. As brigas em c"
       \o "asa por causa do estresse. As noites mal dormidas. A autoestima corroi"
       \o "da. O ambiente toxico de pessoas que te puxam para baixo dizendo 'calm"
       \o "a, nao e hora', 'muito arriscado', 'voce ja esta bem'. Mentira. Voce e"
       \o "sta sendo mantido pequeno por vampiros energeticos que se sentem ameac"
       \o "ados pelo seu potencial.")

\* _create_massive_script, 'indignacao_revolta' script (line 558)
MassiveIndignacaoRevoltaText(segmento) ==
    (  "Enquanto voce esta 'pensando', seus concorrentes estao AGINDO. Aquele "
       \o "cara que comecou depois de voce em "
       \o segmento
       \o "? Ja esta 3x na sua frente. Por que? Porque ele parou de pensar e come"
       \o "cou a EXECUTAR. Porque ele entendeu que o tempo nao para para ninguem."
       \o " Cada mes que voce adia = cada mes que eles ganham vantagem. E nao vol"
       \o "ta mais. Nunca. Voce pode recuperar dinheiro, mas tempo perdido e para"
       \o " sempre. E o pior: voce SABE disso. Voce sabe que esta perdendo o bond"
       \o "e. Voce ve outros crescendo e sente aquela pontada de inveja disfarcad"
       \o "a de 'fico feliz por ele'. Mentira. Voce esta morrendo de raiva porque"
       \o " deveria ser VOCE ali. E sabe por que nao e? Porque voce esta viciado "
       \o "em 'condicoes perfeitas'. Esperando o momento ideal que NUNCA vai cheg"
       \o "ar.")

\* _create_massive_script, 'vislumbre_possibilidade' script (line 571)
MassiveVislumbrePossibilidadeText(segmento) ==
    (  "Porque eu ja vi gente EXATAMENTE como voce sair desse buraco e voar. C"
       \o "liente meu, mesmo perfil que voce, mesmo nivel de frustracao em "
       \o segmento
       \o ". Ha 8 meses era invisivel no mercado. Hoje? Faturamento 10x maior, re"
       \o "conhecido como autoridade, palestrando em eventos, sendo DISPUTADO por"
       \o " clientes premium. A transformacao foi tao rapida que ele mesmo nao ac"
       \o "reditou. E sabe qual foi o segredo? Ele parou de pensar pequeno. Parou"
       \o " de pedir migalhas e comecou a exigir o banquete. Se voce vai fazer o "
       \o "mesmo esforco, por que se contentar com resultados medianos? Por que n"
       \o "ao dominar completamente "
       \o segmento
       \o "? Por que nao ser A referencia? Por que nao ter clientes fazendo FILA "
       \o "para trabalhar com voce? Por que nao cobrar 5x mais? Por que nao ter u"
       \o "m negocio que roda sem voce? Esse e seu potencial REAL. Nao para ser '"
       \o "mais um', mas para ser O cara.")

\* _create_massive_script, 'tensao_maxima' script (line 584)
MassiveTensaoMaximaText(segmento) ==
    (  "Olha o ABISMO entre onde voce esta e onde poderia estar. De um lado: v"
       \o "oce lutando, se esforcando, trabalhando dobrado para resultados median"
       \o "os em "
       \o segmento
       \o ". Do outro: voce dominando, clientes disputando sua atencao, cobrando "
       \o "premium, sendo reconhecido. Duas versoes de VOCE. Uma frustrada, outra"
       \o " realizada. Uma sobrevivendo, outra prosperando. Uma trabalhando PARA "
       \o "o mercado, outra fazendo o mercado trabalhar para ela. E a diferenca e"
       \o "ntre essas duas versoes nao e talento. Nao e sorte. Nao e 'momento cer"
       \o "to'. E DECISAO. E parar de se identificar como 'alguem que luta' e com"
       \o "ecar a se ver como 'alguem que domina'. Voce nao e um lutador. Voce e "
       \o "um DOMINADOR. Pare de aceitar migalhas.")

\* _create_massive_script, 'necessidade_inevitavel' script (line 594)
MassiveNecessidadeInevitavelText(segmento) ==
    (  "A pergunta e COMO voce vai ativar esse potencial. Porque voce pode con"
       \o "tinuar tentando sozinho - cortando mato com foice, reinventando a roda"
       \o ", aprendendo na base da tentativa e erro. Ou pode pegar a AUTOESTRADA."
       \o " O metodo que ja funcionou para centenas de pessoas como voce. O siste"
       \o "ma que elimina 80% dos erros e acelera 300% os resultados. A diferenca"
       \o " e tempo. Sozinho voce chega la? Talvez. Em 5 anos. Errando muito. Sof"
       \o "rendo muito. Ou voce chega em 6 meses, com orientacao, sem os furos, d"
       \o "ireto ao ponto. E agora voce tem 30 segundos para decidir: vai continu"
       \o "ar no modo 'tentativa' ou vai entrar no modo 'execucao'? Porque nao ex"
       \o "iste meio termo. Ou voce DECIDE que vai dominar "
       \o segmento
       \o " nos proximos 6 meses, ou aceita que vai continuar na mediocridade. Na"
       \o "o existe terceira opcao.")

\* _generate_fallback_pre_pitch_system, 'abertura' script (line 831)
FallbackAberturaText(segmento) ==
    (  "Deixa eu te fazer uma pergunta sobre "
       \o segmento
       \o "... Ha quanto tempo voce esta no mesmo nivel? A verdade e que a maiori"
       \o "a dos profissionais trabalha muito mas nao sai do lugar.")

\* _generate_fallback_pre_pitch_system, 'desenvolvimento' script (line 841)
FallbackDesenvolvimentoText(segmento) ==
    (  "Cada dia que passa sem otimizar "
       \o segmento
       \o " e dinheiro saindo do seu bolso. Enquanto voce esta 'pensando', seus c"
       \o "oncorrentes estao agindo. Mas existe um caminho diferente...")

\* _generate_fallback_pre_pitch_system, 'fechamento' script (line 851)
FallbackFechamentoText(segmento) ==
    (  "Agora voce tem duas escolhas em "
       \o segmento
       \o ": continuar como esta ou seguir um metodo comprovado. Eu vou te mostra"
       \o "r exatamente como sair dessa situacao...")

CreateMassiveScript(context) ==
    LET segmento == GetSegmento(context, "negocios")
    IN  Script([abertura_impacto |-> Section(MassiveAberturaImpactoText(segmento)),
                exposicao_ferida |-> Section(MassiveExposicaoFeridaText(segmento)),
                indignacao_revolta |-> Section(MassiveIndignacaoRevoltaText(segmento)),
                vislumbre_possibilidade |-> Section(MassiveVislumbrePossibilidadeText(segmento)),
                tensao_maxima |-> Section(MassiveTensaoMaximaText(segmento)),
                necessidade_inevitavel |-> Section(MassiveNecessidadeInevitavelText(segmento)),
                metricas_devastacao |-> SectionSemScript])

(***************************************************************************)
(* _validate_script: "True", "False", or "raise" when the walk raises      *)
(* (TypeError / AttributeError on a value of the wrong type).              *)
(***************************************************************************)
MinScriptLen == 50

MinGenericLen == 100

GenericMarker == "customizado para"

required_sections == <<"abertura", "desenvolvimento", "fechamento">>

\* ValidateSection without the minimum length of the body
ValidateSectionSemTamanho(script, section) ==
    IF section \notin DOMAIN script.secoes THEN "False"
    ELSE LET section_data == script.secoes[section]
         IN  IF section_data.tipo # "dict" THEN "raise"
             ELSE IF section_data.script_tipo = "ausente" THEN "False"
             ELSE IF section_data.script_tipo = "num" THEN "raise"
             ELSE IF Len(section_data.script) = 0 THEN "False"
             ELSE IF /\ Len(section_data.script) < MinGenericLen
                     /\ StrInLower(GenericMarker, section_data.script)
                  THEN "False"
             ELSE "ok"

\* ValidateSection without the test for the generic marker
ValidateSectionSemGenerico(script, section) ==
    IF section \notin DOMAIN script.secoes THEN "False"
    ELSE LET section_data == script.secoes[section]
         IN  IF section_data.tipo # "dict" THEN "raise"
             ELSE IF section_data.script_tipo = "ausente" THEN "False"
             ELSE IF section_data.script_tipo = "num" THEN "raise"
             ELSE IF Len(section_data.script) < MinScriptLen THEN "False"
             ELSE "ok"

\* the body of the loop for one section: "ok" to go on to the next section
ValidateSection(script, section) ==
    IF section \notin DOMAIN script.secoes THEN "False"
    ELSE LET section_data == script.secoes[section]
         IN  IF section_data.tipo # "dict" THEN "raise"
             ELSE IF section_data.script_tipo = "ausente" THEN "False"
             ELSE IF section_data.script_tipo = "num" THEN "raise"
             ELSE IF Len(section_data.script) < MinScriptLen THEN "False"
             ELSE IF /\ Len(section_data.script) < MinGenericLen
                     /\ StrInLower(GenericMarker, section_data.script)
                  THEN "False"
             ELSE "ok"

RECURSIVE ValidateFrom(_, _)
ValidateFrom(script, i) ==
    IF i > Len(required_sections) THEN "True"
    ELSE LET v == ValidateSection(script, required_sections[i])
         IN  IF v = "ok" THEN ValidateFrom(script, i + 1) ELSE v

\* not script: None, or a dict without keys
ScriptFalsy(script) ==
    \/ script.tipo = "null"
    \/ script.tipo = "dict" /\ DOMAIN script.secoes = {}

\* ValidateScript without the loop over the required sections
ValidateScriptSoNaoVazio(script) ==
    IF ScriptFalsy(script) THEN "False" ELSE "True"

\* a list that holds none of the section names fails "section not in script";
\* a number raises TypeError there
ValidateScript(script) ==
    IF ScriptFalsy(script) THEN "False"
    ELSE IF script.tipo = "list" THEN "False"
    ELSE IF script.tipo # "dict" THEN "raise"
    ELSE ValidateFrom(script, 1)

(***************************************************************************)
(* Post-processing tables and the bundles.                                 *)
(***************************************************************************)
CreateFormatVariations ==
    [webinar |->
        [duracao_total |-> "15-20 minutos",
         adaptacoes |-> <<"Usar chat para engajamento", "Pausas para perguntas retoricas",
                          "Slides de apoio visual">>,
         timing |-> "Ultimos 20 minutos antes da oferta"],
     evento_presencial |->
        [duracao_total |-> "25-35 minutos",
         adaptacoes |-> <<"Interacao direta com audiencia", "Movimentacao no palco",
                          "Provas visuais fisicas">>,
         timing |-> "Distribuido ao longo do evento"],
     cpl_3_aulas |->
        [duracao_total |-> "10-15 minutos",
         adaptacoes |-> <<"Construcao gradual ao longo das aulas", "Callbacks entre aulas",
                          "Intensificacao na aula 3">>,
         timing |-> "Final da aula 3"],
     lives_aquecimento |->
        [duracao_total |-> "5-8 minutos por live",
         adaptacoes |-> <<"Sementes em cada live", "Preparacao subliminar",
                          "Crescimento de intensidade">>,
         timing |-> "Distribuido nas lives"]]

CreateSuccessMetrics ==
    [indicadores_durante |->
        <<"Silencio absoluto durante ativacao", "Comentarios emocionais no chat",
          "Perguntas sobre quando abre inscricoes", "Concordancia fisica (acenar cabeca)">>,
     indicadores_apos |->
        <<"Ansiedade visivel para a oferta", "Perguntas sobre preco/formato",
          "Comentarios 'ja quero comprar'", "Objecoes minimizadas">>,
     sinais_resistencia |->
        <<"Questionamentos tecnicos excessivos", "Mudanca de assunto",
          "Objecoes imediatas", "Linguagem corporal fechada">>,
     metricas_conversao |->
        [engajamento |-> "Tempo de atencao por fase",
         emocional |-> "Reacoes emocionais geradas",
         comportamental |-> "Acoes tomadas apos ativacao",
         conversao |-> "Taxa de conversao pos-pre-pitch"]]

\* [driver['nome'] for driver in selected_drivers] raises KeyError without the key
NomesRaises(drivers) == \E i \in 1..Len(drivers) : drivers[i].tipo = "ausente"

\* the result dict of generate_complete_pre_pitch_system
BuildResult(orchestration, script, drivers) ==
    [orquestracao_emocional |-> orchestration,
     roteiro_completo |-> script,
     variacoes_formato |-> CreateFormatVariations,
     metricas_sucesso |-> CreateSuccessMetrics,
     drivers_utilizados |-> Nomes(drivers),
     duracao_total |-> CalculateTotalDuration(orchestration),
     intensidade_maxima |-> CalculateMaxIntensity(orchestration),
     validation_status |-> "VALID"]

GenerateFallbackPrePitchSystem(context) ==
    LET segmento == GetSegmento(context, "negocios")
    IN  [orquestracao_emocional |->
            [sequencia_psicologica |->
                << BasicPhase("quebra", "Quebrar padrao e despertar consciencia",
                              "3-5 minutos", "Alta", "Diagnostico Brutal",
                              "Desconforto produtivo"),
                   BasicPhase("vislumbre", "Mostrar possibilidades", "5-7 minutos",
                              "Esperancosa", "Metodo vs Sorte", "Desejo de mudanca"),
                   BasicPhase("necessidade", "Criar necessidade de solucao",
                              "3-4 minutos", "Definitiva", "Relogio Psicologico",
                              "Urgencia de acao") >>],
         roteiro_completo |->
            Script([abertura |-> Section(FallbackAberturaText(segmento)),
                    desenvolvimento |-> Section(FallbackDesenvolvimentoText(segmento)),
                    fechamento |-> Section(FallbackFechamentoText(segmento))]),
         validation_status |-> "FALLBACK_VALID",
         fallback_mode |-> TRUE,
         duracao_total |-> "13-20 minutos"]

(***************************************************************************)
(* The generation collaborator (ai_manager.generate_analysis).  A response *)
(* text is a sequence of chunks: FenceJson, Fence, " " (white space),      *)
(* "texto" (prose that is no JSON) or the name of a JSON document, whose   *)
(* parse json.loads returns.                                               *)
(***************************************************************************)
Body(n) == Section(Rep("x", n))

GenericBody(n) == Section("Roteiro CUSTOMIZADO PARA " \o Rep("x", n - 25))

BaseSecoes ==
    [abertura |-> Body(120), desenvolvimento |-> Body(120), fechamento |-> Body(120)]

SectionVariants ==
    {"curto", "sem_secao", "sem_script", "vazio", "generico", "generico_longo",
     "nao_dict", "script_num"}

VariantSection(v) ==
    CASE v = "curto" -> Body(MinScriptLen - 1)
      [] v = "sem_script" -> SectionSemScript
      [] v = "vazio" -> Section("")
      [] v = "generico" -> GenericBody(MinGenericLen - 1)
      [] v = "generico_longo" -> GenericBody(MinGenericLen)
      [] v = "nao_dict" -> SectionNaoDict
      [] v = "script_num" -> SectionScriptNum

VariantName(v, section) == "doc_" \o v \o ":" \o section

VariantDoc(v, section) ==
    IF v = "sem_secao"
    THEN Script([k \in (DOMAIN BaseSecoes) \ {section} |-> BaseSecoes[k]])
    ELSE Script([BaseSecoes EXCEPT ![section] = VariantSection(v)])

SectionNames == {required_sections[i] : i \in 1..Len(required_sections)}

BaseDocNames ==
    {"doc_valido", "doc_limite", "doc_seis_secoes", "doc_vazio", "doc_null",
     "doc_numero", "doc_lista"}

DocNames == BaseDocNames \cup {VariantName(v, sec) : v \in SectionVariants, sec \in SectionNames}

\* json.loads of the document of that name
JsonDoc(name) ==
    CASE name = "doc_valido" -> Script(BaseSecoes)
      [] name = "doc_limite" ->
            Script([abertura |-> Body(MinScriptLen), desenvolvimento |-> Body(MinScriptLen),
                    fechamento |-> Body(MinScriptLen)])
      [] name = "doc_seis_secoes" ->
            Script([abertura_impacto |-> Body(300), exposicao_ferida |-> Body(300),
                    indignacao_revolta |-> Body(300), vislumbre_possibilidade |-> Body(300),
                    tensao_maxima |-> Body(300), necessidade_inevitavel |-> Body(300),
                    metricas_devastacao |-> SectionSemScript])
      [] name = "doc_vazio" -> Script(EmptyDict)
      [] name = "doc_null" -> [tipo |-> "null", secoes |-> EmptyDict]
      [] name = "doc_numero" -> [tipo |-> "num", secoes |-> EmptyDict]
      [] name = "doc_lista" -> [tipo |-> "list", secoes |-> EmptyDict]
      [] OTHER ->
            LET vs == CHOOSE p \in SectionVariants \X SectionNames :
                          VariantName(p[1], p[2]) = name
            IN  VariantDoc(vs[1], vs[2])

\* the literal fence-open marker of line 502 (three backquotes and "json")
FenceJson == "<fence>json"

\* the literal fence marker of line 504 (three backquotes), a prefix of FenceJson
Fence == "<fence>"

IsFence(chunk) == chunk \in {Fence, FenceJson}

RECURSIVE Strip(_)
\* str.strip()
Strip(text) ==
    IF text = <<>> THEN text
    ELSE IF Head(text) = " " THEN Strip(Tail(text))
    ELSE IF text[Len(text)] = " " THEN Strip(SubSeq(text, 1, Len(text) - 1))
    ELSE text

\* the text between the first FenceJson and the last Fence (which is the opening
\* fence itself when no other fence follows: the slice is then empty)
CleanResponse(text) ==
    LET clean_response == Strip(text)
    IN  IF \E i \in 1..Len(clean_response) : clean_response[i] = FenceJson
        THEN LET start == CHOOSE i \in 1..Len(clean_response) :
                              /\ clean_response[i] = FenceJson
                              /\ \A j \in 1..(i - 1) : clean_response[j] # FenceJson
                 end == CHOOSE i \in 1..Len(clean_response) :
                              /\ IsFence(clean_response[i])
                              /\ \A j \in (i + 1)..Len(clean_response) :
                                     ~IsFence(clean_response[j])
             IN  Strip(SubSeq(clean_response, start + 1, end - 1))
        ELSE clean_response

\* json.loads succeeds on a text that is exactly one JSON document
JsonLoadsOk(text) == Len(text) = 1 /\ text[1] \in DocNames

AiRaises == [raises |-> TRUE, text |-> <<>>]

AiReturns(text) == [raises |-> FALSE, text |-> text]

ResponseTexts ==
    {<<d>> : d \in DocNames}
    \cup { <<>>, <<" ">>, <<"texto">>, <<FenceJson, "texto", Fence>>,
           <<FenceJson, "doc_valido", Fence>>,
           <<FenceJson, "doc_curto:abertura", Fence>>,
           <<"texto", FenceJson, " ", "doc_valido", " ", Fence, "texto">>,
           <<FenceJson, "doc_valido">>,
           <<Fence, "doc_valido", Fence>>,
           <<" ", "doc_valido", " ">>,
           <<"doc_valido", "texto">> }

AiOutcomes == {AiRaises} \cup {AiReturns(t) : t \in ResponseTexts}

\* _generate_complete_script, given what the collaborator did
GenerateCompleteScript(outcome, context) ==
    IF outcome.raises THEN CreateMassiveScript(context)
    ELSE IF outcome.text = <<>> THEN CreateMassiveScript(context)
    ELSE LET clean_response == CleanResponse(outcome.text)
         IN  IF JsonLoadsOk(clean_response) THEN JsonDoc(clean_response[1])
             ELSE CreateMassiveScript(context)

(***************************************************************************)
(* The inputs of a request.                                                *)
(***************************************************************************)
DriverPool ==
    { Driver("Diagnostico Brutal"), Driver("Metodo vs Sorte"), Driver("Prova Social"),
      Driver("Relogio Psicologico"), DriverSemNome, DriverNomeNone }

DriverLists == UNION {[1..n -> DriverPool] : n \in 0..MaxDrivers}

Avatars == {EmptyDict, [x |-> "1"]}

Contexts ==
    { [produto |-> "curso"],
      [segmento |-> "", produto |-> "curso"],
      [segmento |-> "fitness", produto |-> "curso"],
      [segmento |-> "customizado para", produto |-> "curso"] }

(***************************************************************************)
(* generate_complete_pre_pitch_system, one action per step.                *)
(***************************************************************************)
NoDict == [unset |-> TRUE]

Call(op, nome, contexto) == [op |-> op, nome |-> nome, contexto |-> contexto]

\* a call salvar_etapa(etapa, dados, categoria="pre_pitch"); ok tells whether the
\* collaborator stored the data
SaveCall(etapa, dados, ok) ==
    [op |-> "salvar_etapa", nome |-> etapa, contexto |-> "", dados |-> dados, ok |-> ok]

\* no get_progress request is made
SemPedidoDeProgresso ==
    /\ pc_progress = "inativo"
    /\ etapas_salvas = <<>>
    /\ etapa_i = 0
    /\ analysis_data = EmptyDict
    /\ progress = NoDict

Init ==
    /\ SemPedidoDeProgresso
    /\ drivers_list \in DriverLists
    /\ avatar_analysis \in Avatars
    /\ context_data \in Contexts
    /\ pc = "validar_entrada"
    /\ selected_drivers = <<>>
    /\ emotional_orchestration = NoDict
    /\ response = NoDict
    /\ complete_script = NoDict
    /\ exception = ""
    /\ calls = <<>>
    /\ raised = ""
    /\ result = NoDict
    /\ etapas_com_falha = {}

\* InputError without the check of the segment
InputErrorSemSegmento(drivers, avatar, context) ==
    IF Len(drivers) = 0 THEN "PRE-PITCH FALHOU: Nenhum driver mental fornecido"
    ELSE IF DOMAIN avatar = {} THEN "PRE-PITCH FALHOU: Analise do avatar ausente"
    ELSE ""

\* InputError with the avatar checked before the drivers
InputErrorAvatarPrimeiro(drivers, avatar, context) ==
    IF DOMAIN avatar = {} THEN "PRE-PITCH FALHOU: Analise do avatar ausente"
    ELSE IF Len(drivers) = 0 THEN "PRE-PITCH FALHOU: Nenhum driver mental fornecido"
    ELSE IF GetSegmento(context, "") = "" THEN "PRE-PITCH FALHOU: Segmento obrigatorio"
    ELSE ""

\* the message of the ValueError the input validation raises, "" when it passes
InputError(drivers, avatar, context) ==
    IF Len(drivers) = 0 THEN "PRE-PITCH FALHOU: Nenhum driver mental fornecido"
    ELSE IF DOMAIN avatar = {} THEN "PRE-PITCH FALHOU: Analise do avatar ausente"
    ELSE IF GetSegmento(context, "") = "" THEN "PRE-PITCH FALHOU: Segmento obrigatorio"
    ELSE ""

ValidarEntrada ==
    /\ pc = "validar_entrada"
    /\ raised' = InputError(drivers_list, avatar_analysis, context_data)
    /\ pc' = IF raised' # "" THEN "raised" ELSE "salvar_entrada"
    /\ UNCHANGED <<progress_vars, etapas_com_falha, drivers_list, avatar_analysis, context_data,
                   selected_drivers,
                   emotional_orchestration, response, complete_script, exception,
                   calls, result>>

\* services.auto_save_manager is not part of the sources at hand; its interface is
\* "best-effort; failures are logged, never propagated", so a call returns
SalvarEtapaRaises == FALSE

\* SalvarEtapa going on to the next stage without the call of salvar_etapa
SalvarEtapaSemChamada(etapa, dados, from, to) ==
    /\ pc = from
    /\ pc' = to
    /\ UNCHANGED <<progress_vars, etapas_com_falha, drivers_list, avatar_analysis, context_data,
                   selected_drivers,
                   emotional_orchestration, response, complete_script, exception,
                   calls, raised, result>>

\* SalvarEtapa leaving the try block when the collaborator could not store the data
SalvarEtapaAborta(etapa, dados, from, to) ==
    /\ pc = from
    /\ calls' = Append(calls, SaveCall(etapa, dados, etapa \notin etapas_com_falha))
    /\ IF etapa \in etapas_com_falha
       THEN pc' = "except" /\ exception' = "salvar_etapa"
       ELSE pc' = to /\ UNCHANGED exception
    /\ UNCHANGED <<progress_vars, etapas_com_falha, drivers_list, avatar_analysis, context_data,
                   selected_drivers,
                   emotional_orchestration, response, complete_script, raised, result>>

\* a call of salvar_etapa inside the try block
SalvarEtapa(etapa, dados, from, to) ==
    /\ pc = from
    /\ calls' = Append(calls, SaveCall(etapa, dados, etapa \notin etapas_com_falha))
    /\ IF SalvarEtapaRaises
       THEN pc' = "except" /\ exception' = "salvar_etapa"
       ELSE pc' = to /\ UNCHANGED exception
    /\ UNCHANGED <<progress_vars, etapas_com_falha, drivers_list, avatar_analysis, context_data,
                   selected_drivers,
                   emotional_orchestration, response, complete_script, raised, result>>

SalvarEntrada ==
    SalvarEtapa("pre_pitch_entrada",
                [drivers_list |-> drivers_list, avatar_analysis |-> avatar_analysis,
                 context_data |-> context_data],
                "salvar_entrada", "selecionar")

Selecionar ==
    /\ pc = "selecionar"
    /\ IF SelectRaises(drivers_list)
       THEN /\ pc' = "except"
            /\ exception' = "AttributeError"
            /\ UNCHANGED selected_drivers
       ELSE /\ selected_drivers' =
                   (IF SelectOptimalDrivers(drivers_list) = <<>>
                    THEN GetBasicDrivers
                    ELSE SelectOptimalDrivers(drivers_list))
            /\ pc' = "salvar_drivers"
            /\ UNCHANGED exception
    /\ UNCHANGED <<progress_vars, etapas_com_falha, drivers_list, avatar_analysis, context_data,
                   emotional_orchestration, response, complete_script,
                   calls, raised, result>>

SalvarDrivers ==
    SalvarEtapa("drivers_selecionados", selected_drivers, "salvar_drivers", "orquestrar")

\* Orquestrar without the substitution of the basic orchestration
OrquestrarSemSubstituicao ==
    /\ pc = "orquestrar"
    /\ emotional_orchestration' = CreateEmotionalOrchestration(selected_drivers)
    /\ pc' = "salvar_orquestracao"
    /\ UNCHANGED <<progress_vars, etapas_com_falha, drivers_list, avatar_analysis, context_data,
                   selected_drivers,
                   response, complete_script, exception, calls, raised, result>>

Orquestrar ==
    /\ pc = "orquestrar"
    /\ emotional_orchestration' =
          (LET built == CreateEmotionalOrchestration(selected_drivers)
           IN  IF built.sequencia_psicologica = <<>> THEN CreateBasicOrchestration
               ELSE built)
    /\ pc' = "salvar_orquestracao"
    /\ UNCHANGED <<progress_vars, etapas_com_falha, drivers_list, avatar_analysis, context_data,
                   selected_drivers,
                   response, complete_script, exception, calls, raised, result>>

SalvarOrquestracao ==
    SalvarEtapa("orquestracao_emocional", emotional_orchestration,
                "salvar_orquestracao", "gerar_roteiro")

\* GerarRoteiro calling the collaborator a second time after a failure or an
\* empty response
GerarRoteiroComRetentativa ==
    /\ pc = "gerar_roteiro"
    /\ \E outcome \in AiOutcomes :
          /\ response' = outcome
          /\ complete_script' = GenerateCompleteScript(outcome, context_data)
          /\ pc' = IF /\ outcome.raises \/ outcome.text = <<>>
                      /\ \A i \in 1..Len(calls) : calls[i].op # "generate_analysis"
                   THEN "gerar_roteiro"
                   ELSE "validar_roteiro"
    /\ calls' = Append(calls, Call("generate_analysis", "", ""))
    /\ UNCHANGED <<progress_vars, etapas_com_falha, drivers_list, avatar_analysis, context_data,
                   selected_drivers,
                   emotional_orchestration, exception, raised, result>>

GerarRoteiro ==
    /\ pc = "gerar_roteiro"
    /\ \E outcome \in AiOutcomes :
          /\ response' = outcome
          /\ complete_script' = GenerateCompleteScript(outcome, context_data)
    /\ calls' = Append(calls, Call("generate_analysis", "", ""))
    /\ pc' = "validar_roteiro"
    /\ UNCHANGED <<progress_vars, etapas_com_falha, drivers_list, avatar_analysis, context_data,
                   selected_drivers,
                   emotional_orchestration, exception, raised, result>>

\* the class defines no _create_basic_script: calling it raises AttributeError
ValidarRoteiro ==
    /\ pc = "validar_roteiro"
    /\ LET verdict == ValidateScript(complete_script)
       IN  IF verdict = "True"
           THEN pc' = "salvar_roteiro" /\ UNCHANGED exception
           ELSE IF verdict = "False"
           THEN pc' = "except" /\ exception' = "AttributeError"
           ELSE pc' = "except" /\ exception' = "TypeError"
    /\ UNCHANGED <<progress_vars, etapas_com_falha, drivers_list, avatar_analysis, context_data,
                   selected_drivers,
                   emotional_orchestration, response, complete_script,
                   calls, raised, result>>

SalvarRoteiro ==
    SalvarEtapa("roteiro_completo", complete_script, "salvar_roteiro", "montar_resultado")

MontarResultado ==
    /\ pc = "montar_resultado"
    /\ IF NomesRaises(selected_drivers)
       THEN pc' = "except" /\ exception' = "KeyError" /\ UNCHANGED result
       ELSE /\ result' = BuildResult(emotional_orchestration, complete_script,
                                     selected_drivers)
            /\ pc' = "salvar_final"
            /\ UNCHANGED exception
    /\ UNCHANGED <<progress_vars, etapas_com_falha, drivers_list, avatar_analysis, context_data,
                   selected_drivers,
                   emotional_orchestration, response, complete_script,
                   calls, raised>>

SalvarFinal == SalvarEtapa("pre_pitch_final", result, "salvar_final", "done")

\* TratarExcecao without the call of salvar_erro
TratarExcecaoSemRegistro ==
    /\ pc = "except"
    /\ result' = GenerateFallbackPrePitchSystem(context_data)
    /\ pc' = "done"
    /\ UNCHANGED <<progress_vars, etapas_com_falha, drivers_list, avatar_analysis, context_data,
                   selected_drivers,
                   emotional_orchestration, response, complete_script, exception,
                   raised, calls>>

\* TratarExcecao recording the error without the segment
TratarExcecaoSemContexto ==
    /\ pc = "except"
    /\ calls' = Append(calls, Call("salvar_erro", "pre_pitch_sistema", ""))
    /\ result' = GenerateFallbackPrePitchSystem(context_data)
    /\ pc' = "done"
    /\ UNCHANGED <<progress_vars, etapas_com_falha, drivers_list, avatar_analysis, context_data,
                   selected_drivers,
                   emotional_orchestration, response, complete_script, exception,
                   raised>>

\* except Exception: salvar_erro, then the fallback system is returned
TratarExcecao ==
    /\ pc = "except"
    /\ calls' = Append(calls, Call("salvar_erro", "pre_pitch_sistema",
                                   GetSegmento(context_data, "")))
    /\ result' = GenerateFallbackPrePitchSystem(context_data)
    /\ pc' = "done"
    /\ UNCHANGED <<progress_vars, etapas_com_falha, drivers_list, avatar_analysis, context_data,
                   selected_drivers,
                   emotional_orchestration, response, complete_script, exception,
                   raised>>

Next ==
    \/ ValidarEntrada
    \/ SalvarEntrada
    \/ Selecionar
    \/ SalvarDrivers
    \/ Orquestrar
    \/ SalvarOrquestracao
    \/ GerarRoteiro
    \/ ValidarRoteiro
    \/ SalvarRoteiro
    \/ MontarResultado
    \/ SalvarFinal
    \/ TratarExcecao

Spec == Init /\ [][Next]_vars

(***************************************************************************)
(* Requests during which salvar_etapa fails: SpecFalhas runs the same      *)
(* steps from requests with valid input in which the saves of any set of   *)
(* stages fail.                                                            *)
(***************************************************************************)
Etapas ==
    {"pre_pitch_entrada", "drivers_selecionados", "orquestracao_emocional",
     "roteiro_completo", "pre_pitch_final"}

DriverListsFalhas ==
    { << Driver("Diagnostico Brutal"), Driver("Metodo vs Sorte") >>,
      << Driver("Prova Social"), DriverSemNome >> }

InitFalhas ==
    /\ SemPedidoDeProgresso
    /\ drivers_list \in DriverListsFalhas
    /\ avatar_analysis = [x |-> "1"]
    /\ context_data = [segmento |-> "fitness", produto |-> "curso"]
    /\ etapas_com_falha \in SUBSET Etapas
    /\ pc = "validar_entrada"
    /\ selected_drivers = <<>>
    /\ emotional_orchestration = NoDict
    /\ response = NoDict
    /\ complete_script = NoDict
    /\ exception = ""
    /\ calls = <<>>
    /\ raised = ""
    /\ result = NoDict

SpecFalhas == InitFalhas /\ [][Next]_vars

(***************************************************************************)
(* The selector, the orchestration builder and the two calculations taken  *)
(* alone: the specification SpecFuncoes calls _select_optimal_drivers on   *)
(* long driver lists, _create_emotional_orchestration on what it returns,  *)
(* and _calculate_total_duration and _calculate_max_intensity both on the  *)
(* orchestrations so built and on orchestrations given directly.           *)
(***************************************************************************)
MaxListLen == 14

MaxFases == 2

\* a driver dict with a second key beside 'nome'
DriverCom(name, gatilho) == [tipo |-> "str", nome |-> name, gatilho_central |-> gatilho]

\* fourteen drivers whose names hold no keyword
ListaSemPalavras == [i \in 1..14 |-> Driver("Driver " \o IntToStr(i))]

\* the keyword of every phase as a driver name, three per phase
ListaPalavras ==
    [i \in 1..(3 * Len(phase_drivers)) |->
        Driver(phase_drivers[((i - 1) \div 3) + 1].keywords[((i - 1) % 3) + 1])]

\* the same dict twelve times, then two other names
ListaRepetida ==
    [i \in 1..12 |-> Driver("Alfa")] \o << Driver("Beta"), Driver("Gama") >>

\* two different dicts under one name, then other names
ListaHomonimos ==
    << DriverCom("Alfa", "primeiro"), DriverCom("Alfa", "segundo") >>
    \o SubSeq(ListaSemPalavras, 1, 12)

\* names holding keywords of two phases, homonyms among keyword drivers, dicts
\* without 'nome'
ListaMista ==
    << Driver("Urgencia do Momento"), DriverCom("Diagnostico Brutal", "primeiro"),
       DriverSemNome, Driver("Sistema de Potencial"),
       DriverCom("Diagnostico Brutal", "segundo"), Driver("Mentor Salvador"),
       Driver("Custo Invisivel"), Driver("Ambiente Vampiro"),
       Driver("Relogio Psicologico"), Driver("Trofeu Secreto"),
       Driver("Identidade Aprisionada"), Driver("Oportunidade Oculta"),
       Driver("Decisao Binaria"), Driver("METODO VS SORTE") >>

\* twelve names with no keyword, then a name the mapping knows and the selector
\* does not
ListaTardia == SubSeq(ListaSemPalavras, 1, 12) \o << Driver("Mentor Experiente") >>

\* a name holding words of two branches of the mapping, then a name of one branch
ListaDuasRegras == << Driver("Custo Brutal"), Driver("Mentor Experiente") >>

\* a dict whose 'nome' is None among others
ListaNomeNone == << Driver("Diagnostico Brutal"), DriverNomeNone, Driver("Beta") >>

ListasBase ==
    {ListaSemPalavras, ListaPalavras, ListaRepetida, ListaHomonimos, ListaMista,
     ListaNomeNone, ListaTardia, ListaDuasRegras}

Reverse(xs) == [i \in 1..Len(xs) |-> xs[Len(xs) + 1 - i]]

\* the first n drivers of a base list or of its reverse, or n drivers from the 8th on
SelectorInputs ==
    UNION { { Take(base, n), Take(Reverse(base), n),
              Take(SubSeq(base, 8, Len(base)), n) } \ {<<>>} :
            base \in ListasBase, n \in 1..MaxListLen }

\* phases as the two calculations read them: a duration text and an intensity
PhaseInputs ==
    { [fase |-> "quebra", duracao |-> "3-5", intensidade |-> "Alta"],
      [fase |-> "vislumbre", duracao |-> "5-7", intensidade |-> "Esperancosa"],
      [fase |-> "indignacao", duracao |-> "3-4 minutos", intensidade |-> "Maxima"],
      [fase |-> "exposicao", duracao |-> "4 minutos", intensidade |-> "Crescente"],
      [fase |-> "tensao", duracao |-> "breve", intensidade |-> "Crescente"],
      [fase |-> "necessidade", duracao |-> "10-15 minutos", intensidade |-> "Definitiva"],
      [fase |-> "quebra", duracao |-> "2-3-4 minutos", intensidade |-> "Media"],
      [fase |-> "quebra", duracao |-> "cerca de 7", intensidade |-> "Baixa"],
      [fase |-> "tensao", duracao |-> "", intensidade |-> "Alta"],
      [fase |-> "exposicao", duracao |-> "1.5-2 horas", intensidade |-> "maxima"] }

OrchestrationInputs ==
    { [sequencia_psicologica |-> seq] :
          seq \in UNION {[1..n -> PhaseInputs] : n \in 0..MaxFases} }

ContextoFuncoes == [segmento |-> "fitness", produto |-> "curso"]

InitFuncoes ==
    /\ SemPedidoDeProgresso
    /\ \/ /\ pc = "f_selecao"
          /\ drivers_list \in SelectorInputs
          /\ emotional_orchestration = NoDict
       \/ /\ pc = "f_calculos"
          /\ drivers_list = <<>>
          /\ emotional_orchestration \in OrchestrationInputs
    /\ avatar_analysis = [x |-> "1"]
    /\ context_data = ContextoFuncoes
    /\ selected_drivers = <<>>
    /\ response = NoDict
    /\ complete_script = NoDict
    /\ exception = ""
    /\ calls = <<>>
    /\ raised = ""
    /\ result = NoDict
    /\ etapas_com_falha = {}

\* selected_drivers = self._select_optimal_drivers(drivers_list)
ChamarSelecao ==
    /\ pc = "f_selecao"
    /\ IF SelectRaises(drivers_list)
       THEN /\ pc' = "f_fim"
            /\ exception' = "AttributeError"
            /\ UNCHANGED selected_drivers
       ELSE /\ selected_drivers' = SelectOptimalDrivers(drivers_list)
            /\ pc' = "f_orquestracao"
            /\ UNCHANGED exception
    /\ UNCHANGED <<progress_vars, etapas_com_falha, drivers_list, avatar_analysis, context_data,
                   emotional_orchestration, response, complete_script,
                   calls, raised, result>>

\* emotional_orchestration = self._create_emotional_orchestration(selected_drivers, ...)
ChamarOrquestracao ==
    /\ pc = "f_orquestracao"
    /\ emotional_orchestration' = CreateEmotionalOrchestration(selected_drivers)
    /\ pc' = "f_calculos"
    /\ UNCHANGED <<progress_vars, etapas_com_falha, drivers_list, avatar_analysis, context_data,
                   selected_drivers,
                   response, complete_script, exception, calls, raised, result>>

\* self._calculate_total_duration(...) and self._calculate_max_intensity(...)
ChamarCalculos ==
    /\ pc = "f_calculos"
    /\ result' = [duracao_total |-> CalculateTotalDuration(emotional_orchestration),
                  intensidade_maxima |-> CalculateMaxIntensity(emotional_orchestration)]
    /\ pc' = "f_fim"
    /\ UNCHANGED <<progress_vars, etapas_com_falha, drivers_list, avatar_analysis, context_data,
                   selected_drivers,
                   emotional_orchestration, response, complete_script, exception,
                   calls, raised>>

NextFuncoes ==
    \/ ChamarSelecao
    \/ ChamarOrquestracao
    \/ ChamarCalculos

SpecFuncoes == InitFuncoes /\ [][NextFuncoes]_vars

(***************************************************************************)
(* Properties.                                                             *)

(***************************************************************************)
(* get_progress of routes/analysis.py, interleaved with a request of the   *)
(* same session.                                                           *)
(***************************************************************************)
\* auto_save_manager.listar_etapas_salvas(session_id): the names of the stages
\* stored for the session, in the order they were stored
ListarEtapasSalvas ==
    LET stored == SelectSeq(calls, LAMBDA c : c.op = "salvar_etapa" /\ c.ok)
    IN  [i \in 1..Len(stored) |-> stored[i].nome]

\* auto_save_manager.recuperar_etapa(etapa_nome, session_id): the record of a stored
\* stage, None for a stage that is not stored
RecuperarEtapa(etapa_nome) ==
    LET stored == SelectSeq(calls, LAMBDA c :
                      c.op = "salvar_etapa" /\ c.ok /\ c.nome = etapa_nome)
    IN  IF stored = <<>> THEN NoDict
        ELSE [status |-> "sucesso", dados |-> stored[Len(stored)].dados]

\* the reads of the collaborator do not raise
LeituraRaises == FALSE

StatusCode(status, code) == [status |-> status, code |-> code]

\* etapas_salvas = auto_save_manager.listar_etapas_salvas(session_id), and the
\* 404 answer when it is empty
ListarEtapas ==
    /\ pc_progress = "listar"
    /\ IF LeituraRaises
       THEN /\ progress' = StatusCode("error", 500)
            /\ pc_progress' = "respondido"
            /\ UNCHANGED <<etapas_salvas, etapa_i, analysis_data>>
       ELSE /\ etapas_salvas' = ListarEtapasSalvas
            /\ analysis_data' = EmptyDict
            /\ IF ListarEtapasSalvas = <<>>
               THEN /\ progress' = StatusCode("not_found", 404)
                    /\ pc_progress' = "respondido"
                    /\ UNCHANGED etapa_i
               ELSE /\ etapa_i' = 1
                    /\ pc_progress' = "recuperar"
                    /\ UNCHANGED progress
    /\ UNCHANGED <<drivers_list, avatar_analysis, context_data, pc, selected_drivers,
                   emotional_orchestration, response, complete_script, exception,
                   calls, raised, result, etapas_com_falha>>

\* one turn of the loop over etapas_salvas.keys()
RecuperarEtapaSalva ==
    /\ pc_progress = "recuperar"
    /\ etapa_i <= Len(etapas_salvas)
    /\ LET etapa_nome == etapas_salvas[etapa_i]
           dados_etapa == RecuperarEtapa(etapa_nome)
       IN  IF dados_etapa # NoDict /\ dados_etapa.status = "sucesso"
           THEN analysis_data' = (etapa_nome :> dados_etapa.dados) @@ analysis_data
           ELSE UNCHANGED analysis_data
    /\ etapa_i' = etapa_i + 1
    /\ UNCHANGED <<pc_progress, etapas_salvas, progress>>
    /\ UNCHANGED <<drivers_list, avatar_analysis, context_data, pc, selected_drivers,
                   emotional_orchestration, response, complete_script, exception,
                   calls, raised, result, etapas_com_falha>>

\* 'completed' if analysis_data else 'in_progress', once the loop is over
ResponderProgresso ==
    /\ pc_progress = "recuperar"
    /\ etapa_i > Len(etapas_salvas)
    /\ progress' = StatusCode(IF DOMAIN analysis_data # {} THEN "completed"
                              ELSE "in_progress", 200)
    /\ pc_progress' = "respondido"
    /\ UNCHANGED <<etapas_salvas, etapa_i, analysis_data>>
    /\ UNCHANGED <<drivers_list, avatar_analysis, context_data, pc, selected_drivers,
                   emotional_orchestration, response, complete_script, exception,
                   calls, raised, result, etapas_com_falha>>

\* a request whose first save may fail, and a get_progress request for its session
InitProgresso ==
    /\ drivers_list \in DriverListsFalhas
    /\ avatar_analysis = [x |-> "1"]
    /\ context_data = [segmento |-> "fitness", produto |-> "curso"]
    /\ etapas_com_falha \in {{}, {"pre_pitch_entrada"}}
    /\ pc = "validar_entrada"
    /\ selected_drivers = <<>>
    /\ emotional_orchestration = NoDict
    /\ response = NoDict
    /\ complete_script = NoDict
    /\ exception = ""
    /\ calls = <<>>
    /\ raised = ""
    /\ result = NoDict
    /\ pc_progress = "listar"
    /\ etapas_salvas = <<>>
    /\ etapa_i = 0
    /\ analysis_data = EmptyDict
    /\ progress = NoDict

NextProgresso ==
    \/ Next
    \/ ListarEtapas
    \/ RecuperarEtapaSalva
    \/ ResponderProgresso

SpecProgresso == InitProgresso /\ [][NextProgresso]_vars

(***************************************************************************)
Returned == pc = "done"

Segmento == GetSegmento(context_data, "")

ErrorRecords == SelectSeq(calls, LAMBDA c : c.op = "salvar_erro")

\* the collaborator was called and raised
GenerationRaised == "raises" \in DOMAIN response /\ response.raises

\* the collaborator returned a text
GenerationReturned == "raises" \in DOMAIN response /\ ~response.raises

\* the text the collaborator returned parses as a JSON document
ResponseParses == GenerationReturned /\ JsonLoadsOk(CleanResponse(response.text))

\* C1: every returned bundle is VALID or FALLBACK_VALID; a VALID bundle holds no
\* fallback content (its orchestration is the one built from the caller's drivers,
\* its script is the parsed response of the generator) and a FALLBACK_VALID bundle
\* is the static fallback bundle.
C1_StatusTellsSource ==
    Returned =>
        /\ result.validation_status \in {"VALID", "FALLBACK_VALID"}
        /\ result.validation_status = "VALID" =>
              /\ result.orquestracao_emocional =
                    CreateEmotionalOrchestration(SelectOptimalDrivers(drivers_list))
              /\ result.orquestracao_emocional.sequencia_psicologica # <<>>
              /\ ResponseParses
              /\ result.roteiro_completo = JsonDoc(CleanResponse(response.text)[1])
        /\ result.validation_status = "FALLBACK_VALID" =>
              result = GenerateFallbackPrePitchSystem(context_data)

InvalidInput ==
    \/ Len(drivers_list) = 0
    \/ DOMAIN avatar_analysis = {}
    \/ "segmento" \notin DOMAIN context_data
    \/ context_data.segmento = ""

\* C2: with an empty drivers list, an empty avatar or no segment the call raises an
\* input error, and no salvar_etapa, salvar_erro or generation call was made.
C2_InputErrorBeforeAnyCall ==
    (InvalidInput /\ pc # "validar_entrada") =>
        /\ pc = "raised"
        /\ raised # ""
        /\ calls = <<>>
        /\ result = NoDict

C2_Witness ==
    /\ pc = "raised"
    /\ Len(drivers_list) > 0
    /\ DOMAIN avatar_analysis # {}
    /\ "segmento" \notin DOMAIN context_data
    /\ calls = <<>>

\* C3 as stated: with an empty drivers list and an empty avatar the error raised
\* cites the missing avatar.
C3_CitesMissingAvatar ==
    (pc = "raised" /\ Len(drivers_list) = 0 /\ DOMAIN avatar_analysis = {}) =>
        raised = "PRE-PITCH FALHOU: Analise do avatar ausente"

\* C3 amended: with an empty drivers list and an empty avatar the error raised cites
\* the missing drivers (the drivers are checked first); the missing avatar is cited
\* when the drivers list is not empty.
C3_CitesMissingDrivers ==
    /\ (pc = "raised" /\ Len(drivers_list) = 0 /\ DOMAIN avatar_analysis = {}) =>
          raised = "PRE-PITCH FALHOU: Nenhum driver mental fornecido"
    /\ (pc = "raised" /\ Len(drivers_list) > 0 /\ DOMAIN avatar_analysis = {}) =>
          raised = "PRE-PITCH FALHOU: Analise do avatar ausente"

C3_Witness ==
    /\ pc = "raised"
    /\ Len(drivers_list) = 0
    /\ DOMAIN avatar_analysis = {}
    /\ raised = "PRE-PITCH FALHOU: Nenhum driver mental fornecido"

\* C4: once the input validation passed the call never raises; when a later stage
\* raised (or the generation call did), the call returns, exactly one salvar_erro
\* call was made, it carries the segment, and the bundle returned is the full
\* fallback bundle tagged FALLBACK_VALID.
C4_ExceptionsBecomeFallback ==
    /\ pc \notin {"validar_entrada", "raised"} => raised = ""
    /\ exception # "" => pc \in {"except", "done"}
    /\ (Returned /\ (exception # "" \/ GenerationRaised)) =>
          /\ Len(ErrorRecords) = 1
          /\ ErrorRecords[1].contexto = Segmento
          /\ result = GenerateFallbackPrePitchSystem(context_data)
          /\ result.validation_status = "FALLBACK_VALID"

C4_Witness ==
    /\ Returned
    /\ exception = "KeyError"
    /\ Len(ErrorRecords) = 1
    /\ result.validation_status = "FALLBACK_VALID"

\* a script candidate that fails validation in the way C5 names: a required section
\* is missing, or its body is absent or shorter than 50 characters
FailsAsClaimed(script) ==
    /\ script.tipo = "dict"
    /\ \E section \in {"abertura", "desenvolvimento", "fechamento"} :
          \/ section \notin DOMAIN script.secoes
          \/ /\ script.secoes[section].tipo = "dict"
             /\ \/ script.secoes[section].script_tipo = "ausente"
                \/ /\ script.secoes[section].script_tipo = "str"
                   /\ Len(script.secoes[section].script) < 50

\* C5: when the script candidate misses a required section or has a section body
\* absent or shorter than 50 characters, the returned bundle is tagged as fallback,
\* never VALID.
C5_InvalidScriptNeverValid ==
    (Returned /\ "tipo" \in DOMAIN complete_script /\ FailsAsClaimed(complete_script)) =>
        /\ result.validation_status = "FALLBACK_VALID"
        /\ result.validation_status # "VALID"

C5_Witness ==
    /\ Returned
    /\ response = AiReturns(<<"doc_curto:fechamento">>)
    /\ complete_script = VariantDoc("curto", "fechamento")
    /\ result.validation_status = "FALLBACK_VALID"

\* C6: when the script stage fails after selection and orchestration succeeded, the
\* returned bundle still carries the orchestration built before, and only its script
\* is substituted.
C6_EarlierStagesKept ==
    (Returned /\ "tipo" \in DOMAIN complete_script
              /\ ValidateScript(complete_script) = "False") =>
        result.orquestracao_emocional = emotional_orchestration

\* C7: the script of the script-stage fallback (_create_massive_script) and the
\* roteiro_completo of the full fallback bundle both pass _validate_script.
C7_FallbackScriptsValidate ==
    /\ (pc = "validar_roteiro" /\ complete_script = CreateMassiveScript(context_data)) =>
          ValidateScript(complete_script) = "True"
    /\ (Returned /\ result.validation_status = "FALLBACK_VALID") =>
          ValidateScript(result.roteiro_completo) = "True"

\* C8: when the generator returns a text that does not parse, the returned bundle is
\* FALLBACK_VALID and its roteiro_completo has the sections abertura,
\* desenvolvimento and fechamento, each with a body of at least 50 characters.
C8_UnparsableGivesFallbackScript ==
    (Returned /\ GenerationReturned /\ ~ResponseParses) =>
        /\ result.validation_status = "FALLBACK_VALID"
        /\ \A section \in {"abertura", "desenvolvimento", "fechamento"} :
              /\ section \in DOMAIN result.roteiro_completo.secoes
              /\ result.roteiro_completo.secoes[section].script_tipo = "str"
              /\ Len(result.roteiro_completo.secoes[section].script) >= 50

C8_Witness ==
    /\ Returned
    /\ response = AiReturns(<<"texto">>)
    /\ result.validation_status = "FALLBACK_VALID"
    /\ "abertura" \in DOMAIN result.roteiro_completo.secoes

\* C9: when the generation call raises, the error is not propagated, the fallback
\* bundle is returned and an error record carrying the segment was sent.
C9_GenerationErrorRecorded ==
    (GenerationRaised /\ pc \in {"raised", "done"}) =>
        /\ Returned
        /\ raised = ""
        /\ result = GenerateFallbackPrePitchSystem(context_data)
        /\ \E i \in 1..Len(calls) :
              calls[i].op = "salvar_erro" /\ calls[i].contexto = Segmento

C9_Witness ==
    /\ Returned
    /\ response = AiRaises
    /\ Len(ErrorRecords) = 1
    /\ result.validation_status = "FALLBACK_VALID"

BundleFields ==
    {"orquestracao_emocional", "roteiro_completo", "variacoes_formato",
     "metricas_sucesso", "drivers_utilizados", "duracao_total", "intensidade_maxima"}

\* C10: every returned bundle holds the orchestration, the script, the format
\* variants, the success metrics, the drivers used, the total duration and the
\* maximum intensity.
C10_BundleWellFormed == Returned => BundleFields \subseteq DOMAIN result

(***************************************************************************)
(* Properties of the selector, the orchestration and the calculations.     *)
(***************************************************************************)
\* _select_optimal_drivers has just returned selected_drivers
SelecaoFeita == pc = "f_orquestracao"

\* the index of the first driver of that name in xs
FirstIndexOfName(xs, name) ==
    CHOOSE i \in 1..Len(xs) :
        GetNome(xs[i]) = name /\ \A j \in 1..(i - 1) : GetNome(xs[j]) # name

\* C11: the drivers _select_optimal_drivers returns are at most 10, no two of them
\* have the same name, each is the first driver of its name in the combined
\* selection, and they stand in the order of the combined selection.
C11_SelectionBoundedAndUnique ==
    SelecaoFeita =>
        LET combined == AllSelected(drivers_list)
            first(i) == FirstIndexOfName(combined, GetNome(selected_drivers[i]))
        IN  /\ Len(selected_drivers) <= 10
            /\ \A i, j \in 1..Len(selected_drivers) :
                  i # j => GetNome(selected_drivers[i]) # GetNome(selected_drivers[j])
            /\ \A i \in 1..Len(selected_drivers) :
                  /\ \E k \in 1..Len(combined) : GetNome(combined[k]) = GetNome(selected_drivers[i])
                  /\ selected_drivers[i] = combined[first(i)]
            /\ \A i, j \in 1..Len(selected_drivers) : i < j => first(i) < first(j)

C11_Witness ==
    /\ SelecaoFeita
    /\ drivers_list = ListaMista
    /\ Len(selected_drivers) = 10
    /\ Len(AllSelected(drivers_list)) > 10
    /\ ListIn(DriverCom("Diagnostico Brutal", "primeiro"), selected_drivers)
    /\ ~ListIn(DriverCom("Diagnostico Brutal", "segundo"), selected_drivers)

DistinctNames(drivers) == {GetNome(drivers[i]) : i \in 1..Len(drivers)}

\* C12: when the phase and the critical steps selected fewer than 8 drivers, the
\* selector returns min(10, number of distinct names in the input) drivers.
C12_BackfillReachesTen ==
    (SelecaoFeita /\ Len(WithCritical(drivers_list)) < 8) =>
        Len(selected_drivers) =
            (IF Cardinality(DistinctNames(drivers_list)) < 10
             THEN Cardinality(DistinctNames(drivers_list)) ELSE 10)

\* the index of a phase in the canonical order, 0 for a name that is no phase
CanonicalIndex(fase) ==
    IF \E i \in 1..Len(psychological_phases) : psychological_phases[i].fase = fase
    THEN CHOOSE i \in 1..Len(psychological_phases) : psychological_phases[i].fase = fase
    ELSE 0

\* the phases stand in the canonical order without repetition and each holds a driver
InCanonicalOrder(orchestration) ==
    LET seq == orchestration.sequencia_psicologica
    IN  /\ \A i \in 1..Len(seq) :
              /\ CanonicalIndex(seq[i].fase) > 0
              /\ seq[i].drivers_utilizados # <<>>
        /\ \A i, j \in 1..Len(seq) :
              i < j => CanonicalIndex(seq[i].fase) < CanonicalIndex(seq[j].fase)

\* _create_emotional_orchestration has just returned emotional_orchestration
OrquestracaoFeita == pc = "f_calculos" /\ drivers_list # <<>>

\* C13: the orchestration _create_emotional_orchestration builds, the basic
\* orchestration and the orchestration of the fallback bundle each list their phases
\* in the order quebra, exposicao, indignacao, vislumbre, tensao, necessidade, without
\* repetition, and hold no phase whose list of drivers is empty.
C13_PhasesInCanonicalOrder ==
    /\ OrquestracaoFeita => InCanonicalOrder(emotional_orchestration)
    /\ InCanonicalOrder(CreateBasicOrchestration)
    /\ InCanonicalOrder(GenerateFallbackPrePitchSystem(context_data).orquestracao_emocional)

C13_Witness ==
    /\ OrquestracaoFeita
    /\ drivers_list = Take(Reverse(ListaPalavras), 14)
    /\ Fases(emotional_orchestration.sequencia_psicologica) =
          <<"indignacao", "vislumbre", "tensao", "necessidade">>
    /\ emotional_orchestration.sequencia_psicologica[1].drivers_utilizados =
          <<"Urgencia", "Inveja Produtiva">>

\* the orchestration stage of the request is over
AposOrquestracao ==
    pc \in {"salvar_orquestracao", "gerar_roteiro", "validar_roteiro", "salvar_roteiro",
            "montar_resultado", "salvar_final"}

\* C14: the orchestration handed to the script stage and the one of every returned
\* bundle has at least one phase; when no selected driver maps to a phase the
\* orchestration is the basic one (quebra, vislumbre, necessidade) and the request
\* goes on without an exception.
C14_OrchestrationNeverEmpty ==
    /\ AposOrquestracao =>
          /\ emotional_orchestration.sequencia_psicologica # <<>>
          /\ raised = ""
    /\ (AposOrquestracao /\ MapDriversToPhases(selected_drivers) = EmptyDict) =>
          /\ emotional_orchestration = CreateBasicOrchestration
          /\ Fases(emotional_orchestration.sequencia_psicologica) =
                <<"quebra", "vislumbre", "necessidade">>
          /\ pc = "salvar_orquestracao" => exception = ""
    /\ Returned => result.orquestracao_emocional.sequencia_psicologica # <<>>

C14_Witness ==
    /\ pc = "gerar_roteiro"
    /\ selected_drivers = <<Driver("Prova Social")>>
    /\ emotional_orchestration = CreateBasicOrchestration
    /\ exception = ""

GenerationCalls == SelectSeq(calls, LAMBDA c : c.op = "generate_analysis")

\* the collaborator returned an empty response
GenerationEmpty == GenerationReturned /\ response.text = <<>>

\* C15: a request calls the generation collaborator at most once; after it raised or
\* returned an empty response no second call follows, the script stage falls back to
\* the script of _create_massive_script and the bundle returned is the fallback one.
C15_SingleGenerationCall ==
    /\ Len(GenerationCalls) <= 1
    /\ (GenerationRaised \/ GenerationEmpty) =>
          /\ Len(GenerationCalls) = 1
          /\ pc # "gerar_roteiro"
          /\ complete_script = CreateMassiveScript(context_data)
          /\ Returned => result.validation_status = "FALLBACK_VALID"

C15_Witness ==
    /\ Returned
    /\ GenerationEmpty
    /\ Len(GenerationCalls) = 1
    /\ result.validation_status = "FALLBACK_VALID"

StageOrder ==
    <<"pre_pitch_entrada", "drivers_selecionados", "orquestracao_emocional",
      "roteiro_completo", "pre_pitch_final">>

SaveCalls == SelectSeq(calls, LAMBDA c : c.op = "salvar_etapa")

\* the k-th stage of StageOrder was saved with these data
Saved(k, dados) ==
    /\ Len(SaveCalls) >= k
    /\ SaveCalls[k].nome = StageOrder[k]
    /\ SaveCalls[k].dados = dados

\* C16: the salvar_etapa calls of a request are a prefix of pre_pitch_entrada,
\* drivers_selecionados, orquestracao_emocional, roteiro_completo, pre_pitch_final;
\* a stage starts only after the output of the stage before it was saved, the
\* generation call comes after the save of orquestracao_emocional, and a VALID
\* bundle is returned only after all five saves.
C16_SavedBeforeNextStage ==
    /\ Len(SaveCalls) <= Len(StageOrder)
    /\ \A k \in 1..Len(SaveCalls) : SaveCalls[k].nome = StageOrder[k]
    /\ pc = "selecionar" =>
          Saved(1, [drivers_list |-> drivers_list, avatar_analysis |-> avatar_analysis,
                    context_data |-> context_data])
    /\ pc = "orquestrar" => Saved(2, selected_drivers)
    /\ pc = "gerar_roteiro" => Saved(3, emotional_orchestration)
    /\ \A i \in 1..Len(calls) :
          calls[i].op = "generate_analysis" =>
              \E j \in 1..(i - 1) :
                  calls[j].op = "salvar_etapa" /\ calls[j].nome = "orquestracao_emocional"
    /\ pc = "montar_resultado" => Saved(4, complete_script)
    /\ (Returned /\ result.validation_status = "VALID") =>
          /\ Len(SaveCalls) = 5
          /\ Saved(5, result)

C16_Witness ==
    /\ Returned
    /\ result.validation_status = "VALID"
    /\ Len(SaveCalls) = 5
    /\ Len(GenerationCalls) = 1
    /\ Len(selected_drivers) = 2

\* the salvar_etapa calls whose data are the bundle returned
WritesOfResult == {i \in 1..Len(calls) : calls[i].op = "salvar_etapa" /\ calls[i].dados = result}

\* C17: every bundle returned, VALID or FALLBACK_VALID, was handed to salvar_etapa
\* exactly once in the request.
C17_BundleWrittenOnce == Returned => Cardinality(WritesOfResult) = 1

\* the bundle the request returns when every salvar_etapa call succeeds, as the
\* stages compute it from the input and from what the generation collaborator did
ResultWhenSavesSucceed ==
    IF SelectRaises(drivers_list) THEN GenerateFallbackPrePitchSystem(context_data)
    ELSE LET optimal == SelectOptimalDrivers(drivers_list)
             selected == IF optimal = <<>> THEN GetBasicDrivers ELSE optimal
             built == CreateEmotionalOrchestration(selected)
             orchestration == IF built.sequencia_psicologica = <<>>
                              THEN CreateBasicOrchestration ELSE built
             script == GenerateCompleteScript(response, context_data)
         IN  IF ValidateScript(script) # "True" \/ NomesRaises(selected)
             THEN GenerateFallbackPrePitchSystem(context_data)
             ELSE BuildResult(orchestration, script, selected)

FailedSaves == SelectSeq(calls, LAMBDA c : c.op = "salvar_etapa" /\ ~c.ok)

CalculosFeitos == pc = "f_fim" /\ exception = ""

\* the first and the second number of each duration text (the first twice when the
\* text holds one number, nothing when it holds none), read off by hand
NumerosDaDuracao ==
    [d \in {"3-5", "5-7", "3-4 minutos", "4 minutos", "breve", "10-15 minutos",
            "2-3-4 minutos", "cerca de 7", "", "1.5-2 horas", "3-5 minutos",
            "4-6 minutos", "5-7 minutos", "2-3 minutos"} |->
        CASE d = "3-5" -> <<3, 5>>
          [] d = "5-7" -> <<5, 7>>
          [] d = "3-4 minutos" -> <<3, 4>>
          [] d = "4 minutos" -> <<4, 4>>
          [] d = "breve" -> <<0, 0>>
          [] d = "10-15 minutos" -> <<10, 15>>
          [] d = "2-3-4 minutos" -> <<2, 3>>
          [] d = "cerca de 7" -> <<7, 7>>
          [] d = "" -> <<0, 0>>
          [] d = "1.5-2 horas" -> <<1, 5>>
          [] d = "3-5 minutos" -> <<3, 5>>
          [] d = "4-6 minutos" -> <<4, 6>>
          [] d = "5-7 minutos" -> <<5, 7>>
          [] d = "2-3 minutos" -> <<2, 3>>]

RECURSIVE SomaDuracoes(_, _)
\* the sum over the phases of the k-th number of their duration
SomaDuracoes(sequence, k) ==
    IF sequence = <<>> THEN 0
    ELSE NumerosDaDuracao[Head(sequence).duracao][k] + SomaDuracoes(Tail(sequence), k)

Duracoes(orchestration) ==
    [i \in 1..Len(orchestration.sequencia_psicologica) |->
        orchestration.sequencia_psicologica[i].duracao]

\* C19: _calculate_total_duration returns "<min>-<max> minutos", min the sum of the
\* first numbers of the durations and max the sum of the second numbers, a single
\* number counting in both sums and a duration without a number in none; the
\* durations "3-5" and "5-7" give "8-12 minutos".
C19_TotalDurationSums ==
    CalculosFeitos =>
        /\ result.duracao_total =
              ToString(SomaDuracoes(emotional_orchestration.sequencia_psicologica, 1))
              \o "-"
              \o ToString(SomaDuracoes(emotional_orchestration.sequencia_psicologica, 2))
              \o " minutos"
        /\ Duracoes(emotional_orchestration) = <<"3-5", "5-7">> =>
              result.duracao_total = "8-12 minutos"
        /\ Duracoes(emotional_orchestration) = <<"4 minutos", "breve">> =>
              result.duracao_total = "4-4 minutos"

C19_Witness ==
    /\ CalculosFeitos
    /\ Duracoes(emotional_orchestration) = <<"3-5", "5-7">>
    /\ result.duracao_total = "8-12 minutos"

IntensityRank(intensidade) ==
    CASE intensidade = "Maxima" -> 3
      [] intensidade = "Alta" -> 2
      [] intensidade = "Crescente" -> 1
      [] OTHER -> 0

\* the highest rank among the phases, 0 without a ranked phase
HighestRank(orchestration) ==
    LET ranks == {IntensityRank(orchestration.sequencia_psicologica[i].intensidade) :
                      i \in 1..Len(orchestration.sequencia_psicologica)} \cup {0}
    IN  CHOOSE r \in ranks : \A q \in ranks : q <= r

\* C20: _calculate_max_intensity returns the intensity of the highest rank present
\* among the phases, Maxima over Alta over Crescente, and Media when no phase has one
\* of the three.
C20_MaxIntensityByRank ==
    CalculosFeitos =>
        /\ IntensityRank(result.intensidade_maxima) = HighestRank(emotional_orchestration)
        /\ HighestRank(emotional_orchestration) = 0 <=> result.intensidade_maxima = "Media"

C20_Witness ==
    /\ CalculosFeitos
    /\ Len(emotional_orchestration.sequencia_psicologica) = 2
    /\ emotional_orchestration.sequencia_psicologica[1].intensidade = "Alta"
    /\ emotional_orchestration.sequencia_psicologica[2].intensidade = "Maxima"
    /\ result.intensidade_maxima = "Maxima"

(***************************************************************************)
(* Properties of the validator, the transitions and the bundles.           *)
(***************************************************************************)
\* _validate_script has just been called on complete_script
Validado ==
    \/ pc = "salvar_roteiro"
    \/ pc = "except" /\ "tipo" \in DOMAIN complete_script /\ exception # "KeyError"

\* the section holds a text body of at least 50 characters that is not a
\* placeholder (the marker 'customizado para' in a body shorter than 100 characters)
SectionAcceptable(section_data) ==
    /\ section_data.tipo = "dict"
    /\ section_data.script_tipo = "str"
    /\ Len(section_data.script) >= 50
    /\ ~(Len(section_data.script) < 100
         /\ StrInLower("customizado para", section_data.script))

\* the script is not empty and its sections abertura, desenvolvimento and
\* fechamento are all acceptable
ScriptAcceptable(script) ==
    /\ script.tipo = "dict"
    /\ DOMAIN script.secoes # {}
    /\ \A section \in {"abertura", "desenvolvimento", "fechamento"} :
          /\ section \in DOMAIN script.secoes
          /\ SectionAcceptable(script.secoes[section])

\* one of the three sections is missing, has no body, or has a text body that is
\* not acceptable, and the other two are acceptable
OneSectionFails(script) ==
    /\ script.tipo = "dict"
    /\ \E section \in {"abertura", "desenvolvimento", "fechamento"} :
          /\ \/ section \notin DOMAIN script.secoes
             \/ /\ script.secoes[section].tipo = "dict"
                /\ script.secoes[section].script_tipo \in {"ausente", "str"}
                /\ ~SectionAcceptable(script.secoes[section])
          /\ \A other \in {"abertura", "desenvolvimento", "fechamento"} \ {section} :
                /\ other \in DOMAIN script.secoes
                /\ SectionAcceptable(script.secoes[other])

\* C22: _validate_script returns True exactly when the script is not empty and each
\* of abertura, desenvolvimento and fechamento is present with a body of at least 50
\* characters that does not both hold 'customizado para' (in any case) and stay
\* under 100 characters; one failing section alone gives False.
C22_ValidatorExact ==
    Validado =>
        /\ pc = "salvar_roteiro" <=> ScriptAcceptable(complete_script)
        /\ ValidateScript(complete_script) = "True" <=> ScriptAcceptable(complete_script)
        /\ OneSectionFails(complete_script) =>
              /\ pc = "except"
              /\ exception = "AttributeError"
              /\ ValidateScript(complete_script) = "False"

C22_Witness ==
    /\ pc = "salvar_roteiro"
    /\ complete_script = VariantDoc("generico_longo", "desenvolvimento")
    /\ Len(complete_script.secoes["desenvolvimento"].script) = 100

\* the sentence of a transition: the hand-written one of the pair, else the
\* templated one
TransitionSentence(de, para) ==
    CASE de = "quebra" /\ para = "exposicao" ->
            "Eu sei que isso doi ouvir... Mas sabe o que doi mais?"
      [] de = "exposicao" /\ para = "indignacao" ->
            "E o pior de tudo e que isso nao precisa ser assim..."
      [] de = "indignacao" /\ para = "vislumbre" ->
            "Mas calma, nao vim aqui so para abrir feridas..."
      [] de = "vislumbre" /\ para = "tensao" ->
            "Agora voce ve a diferenca entre onde esta e onde poderia estar..."
      [] de = "tensao" /\ para = "necessidade" ->
            "A pergunta nao e SE voce vai mudar, e COMO..."
      [] OTHER -> "Transicao de " \o de \o " para " \o para

\* C23: for a sequence of n phases _create_phase_transitions gives n-1 transitions
\* (none for n = 0 or 1), the i-th from phase i to phase i+1, with the hand-written
\* sentence of the pair when the table has one and the templated sentence otherwise.
C23_TransitionsBetweenNeighbours ==
    OrquestracaoFeita =>
        LET seq == emotional_orchestration.sequencia_psicologica
            transicoes == emotional_orchestration.transicoes
        IN  /\ Len(transicoes) = (IF Len(seq) = 0 THEN 0 ELSE Len(seq) - 1)
            /\ \A i \in 1..Len(transicoes) :
                  /\ transicoes[i].de = seq[i].fase
                  /\ transicoes[i].para = seq[i + 1].fase
                  /\ transicoes[i].script = TransitionSentence(seq[i].fase, seq[i + 1].fase)

C23_Witness ==
    /\ OrquestracaoFeita
    /\ Fases(emotional_orchestration.sequencia_psicologica) =
          <<"quebra", "exposicao", "indignacao", "necessidade">>
    /\ Len(emotional_orchestration.transicoes) = 3
    /\ emotional_orchestration.transicoes[1].script =
          "Eu sei que isso doi ouvir... Mas sabe o que doi mais?"
    /\ emotional_orchestration.transicoes[3].script =
          "Transicao de indignacao para necessidade"

\* C24: in every bundle returned, VALID or FALLBACK_VALID, duracao_total is the total
\* duration _calculate_total_duration derives from the phases of the bundle's own
\* orchestration.
C24_DurationMatchesPhases ==
    Returned => result.duracao_total = CalculateTotalDuration(result.orquestracao_emocional)

NarrativeBeats ==
    {"abertura_impacto", "exposicao_ferida", "indignacao_revolta",
     "vislumbre_possibilidade", "tensao_maxima", "necessidade_inevitavel"}

\* the parsed response has the six sections the prompt asks for, each with a text
\* body of at least 50 characters
HasPromptShape(script) ==
    /\ script.tipo = "dict"
    /\ \A beat \in NarrativeBeats :
          /\ beat \in DOMAIN script.secoes
          /\ script.secoes[beat].tipo = "dict"
          /\ script.secoes[beat].script_tipo = "str"
          /\ Len(script.secoes[beat].script) >= 50

\* C25: when the generator returns a document with the six narrative sections of the
\* prompt, each with a body of at least 50 characters, the bundle returned is VALID
\* and its roteiro_completo is that document.
C25_PromptShapeIsValid ==
    (Returned /\ ResponseParses /\ NomesRaises(selected_drivers) = FALSE
              /\ HasPromptShape(JsonDoc(CleanResponse(response.text)[1]))) =>
        /\ result.validation_status = "VALID"
        /\ result.roteiro_completo = JsonDoc(CleanResponse(response.text)[1])

PhaseDriverNames(orchestration) ==
    UNION { {orchestration.sequencia_psicologica[i].drivers_utilizados[k] :
                 k \in 1..Len(orchestration.sequencia_psicologica[i].drivers_utilizados)} :
            i \in 1..Len(orchestration.sequencia_psicologica) }

\* C26: in every VALID bundle the top-level drivers_utilizados is the list of names
\* of the selector's output, in selector order, and every driver name of a phase of
\* the orchestration is one of them.
C26_PhaseDriversWereSelected ==
    (Returned /\ result.validation_status = "VALID") =>
        /\ result.drivers_utilizados = Nomes(SelectOptimalDrivers(drivers_list))
        /\ \A name \in PhaseDriverNames(result.orquestracao_emocional) :
              \E i \in 1..Len(result.drivers_utilizados) :
                  result.drivers_utilizados[i] = name

\* the selector has returned inside the request
Selecionado == pc = "salvar_drivers"

\* C27: the request reaches the selector only with a non-empty list; the selector
\* then returns at least one driver, and the drivers the request goes on with all
\* come from the caller's list: the basic drivers are never substituted.
C27_SelectorNeverEmpty ==
    Selecionado =>
        /\ drivers_list # <<>>
        /\ Len(selected_drivers) >= 1
        /\ \A i \in 1..Len(selected_drivers) : ListIn(selected_drivers[i], drivers_list)

\* a single driver that matches no phase and no critical keyword is selected by the
\* backfill alone
C27_Witness ==
    /\ Selecionado
    /\ drivers_list = <<Driver("Prova Social")>>
    /\ WithCritical(drivers_list) = <<>>
    /\ selected_drivers = <<Driver("Prova Social")>>

\* the name satisfies the condition of the i-th branch of the chain, read alone
MatchesRule(i, driver) ==
    \E k \in 1..Len(phase_rules[i].words) :
        StrInLower(phase_rules[i].words[k], GetNome(driver))

\* the branch of the chain that runs for the driver: the first one it satisfies
FirstRule(driver) ==
    IF \A i \in 1..Len(phase_rules) : ~MatchesRule(i, driver) THEN 0
    ELSE CHOOSE i \in 1..Len(phase_rules) :
            /\ MatchesRule(i, driver)
            /\ \A h \in 1..(i - 1) : ~MatchesRule(h, driver)

PhasesOf(orchestration) ==
    {orchestration.sequencia_psicologica[i].fase :
        i \in 1..Len(orchestration.sequencia_psicologica)}

\* C28 (as stated): a driver of the caller's list that matches the keyword rule of a
\* phase puts that phase into the orchestration built from the selector's output.
C28_MatchedPhasePresent ==
    OrquestracaoFeita =>
        \A j \in 1..Len(drivers_list) : \A i \in 1..Len(phase_rules) :
            MatchesRule(i, drivers_list[j]) =>
                phase_rules[i].fase \in PhasesOf(emotional_orchestration)

\* C28 (amended): a driver of the selector's output puts into the orchestration the
\* phase of the first rule of the chain its name matches.
C28_SelectedFirstRulePresent ==
    OrquestracaoFeita =>
        \A j \in 1..Len(selected_drivers) :
            FirstRule(selected_drivers[j]) # 0 =>
                phase_rules[FirstRule(selected_drivers[j])].fase
                    \in PhasesOf(emotional_orchestration)

\* a selected name with words of two branches yields the phase of the first only
C28_Witness ==
    /\ OrquestracaoFeita
    /\ selected_drivers = <<Driver("Custo Brutal")>>
    /\ MatchesRule(1, selected_drivers[1])
    /\ MatchesRule(2, selected_drivers[1])
    /\ PhasesOf(emotional_orchestration) = {"quebra"}

\* a VALID bundle whose orchestration carries an escalation, which only
\* _create_emotional_orchestration builds
ValidoComEscalada ==
    /\ Returned
    /\ result.validation_status = "VALID"
    /\ "escalada_emocional" \in DOMAIN result.orquestracao_emocional

PontosPico == result.orquestracao_emocional.escalada_emocional.pontos_pico

\* C29 (as stated): in a VALID bundle with a built orchestration, peak points that
\* are not empty come with intensidade_maxima 'Maxima'.
C29_PeaksMeanMaxima ==
    (ValidoComEscalada /\ PontosPico # <<>>) => result.intensidade_maxima = "Maxima"

\* C29 (amended): in a VALID bundle with a built orchestration, intensidade_maxima
\* is 'Maxima' exactly when a phase other than necessidade is among the peak
\* points; necessidade, whose intensity is 'Definitiva', is a peak that the ranking
\* does not count.
C29_PeaksOtherThanNecessidade ==
    ValidoComEscalada =>
        (result.intensidade_maxima = "Maxima"
            <=> \E i \in 1..Len(PontosPico) : PontosPico[i] # "necessidade")

C29_Witness ==
    /\ ValidoComEscalada
    /\ PontosPico = <<"indignacao", "necessidade">>
    /\ result.intensidade_maxima = "Maxima"

Respondido == pc_progress = "respondido"

FinalSalvo ==
    \E i \in 1..Len(calls) :
        calls[i].op = "salvar_etapa" /\ calls[i].nome = "pre_pitch_final" /\ calls[i].ok

\* C30: a progress request answered while a request of the same session runs says
\* 'completed' only once the final stage is stored, 'in_progress' when the stages
\* it listed are earlier ones only, and not_found with code 404 exactly when it
\* listed no stage.
C30_CompletedOnlyAfterFinal ==
    Respondido =>
        /\ progress.status = "completed" => FinalSalvo
        /\ (etapas_salvas # <<>> /\ ~ListIn("pre_pitch_final", etapas_salvas)) =>
               progress.status = "in_progress"
        /\ (progress.status = "not_found" /\ progress.code = 404) <=> etapas_salvas = <<>>

====
